---- MODULE Spec2Model ----
(***************************************************************************)
(* Model of hacktivator's PIM core: the eligibility aggregator             *)
(* (GetEligibleRoleAssignments / fetchEligibleRoles) and the activation    *)
(* builder (ActivateRole), both driven through runAzCommand, and of the    *)
(* commands of main.go with the progress overlay, the role selector and    *)
(* the justification prompt.                                               *)
(*                                                                         *)
(* Strings are sequences of tokens: fmt.Sprintf is concatenation (\o), the *)
(* empty string is << >>.  Identifiers that the code splits or trims are   *)
(* spelled character by character.  The az executor is the environment:    *)
(* each runAzCommand call is answered nondeterministically.                *)
(***************************************************************************)
EXTENDS Integers, Sequences, FiniteSets, TLC

VARIABLES
    aggPc,          \* position inside GetEligibleRoleAssignments
    subscriptions,  \* GetEligibleRoleAssignments: subscriptions
    scopeIdx,       \* 0 = tenant root, i = i-th subscription of the loop
    url,            \* fetchEligibleRoles: url
    fetched,        \* fetchEligibleRoles: allRoles (the per-scope accumulator)
    roles,          \* GetEligibleRoleAssignments: roles (last scope's return value)
    err,            \* GetEligibleRoleAssignments: err  (last scope's return error)
    allRoles,       \* GetEligibleRoleAssignments: allRoles
    uniqueRoles,    \* value returned by GetEligibleRoleAssignments
    aggErr,         \* error returned by GetEligibleRoleAssignments
    pages,          \* executor side: the GETs of the current scope query, [url, resp]
    outcomes,       \* executor side: per scope queried so far, "ok" or "failed"
    servedOk,       \* executor side: rows served to the scope queries that succeeded
    linksGiven,     \* executor side: continuation links handed out so far
    rowsGiven,      \* executor side: rows served so far
    enumerated,     \* executor side: how `az account list` was answered
    actPc,          \* position inside ActivateRole
    req,            \* ActivateRole: req
    requestID,      \* ActivateRole: requestID
    currentUserPrincipalID,  \* ActivateRole: currentUserPrincipalID
    eligibilityScheduleID,   \* ActivateRole: eligibilityScheduleID
    requestBody,    \* ActivateRole: requestBody
    actErr,         \* error returned by ActivateRole
    actCalls        \* executor side: ActivateRole's runAzCommand calls, [args, resp]

aggVars == <<aggPc, subscriptions, scopeIdx, url, fetched, roles, err,
             allRoles, uniqueRoles, aggErr>>
envVars == <<pages, outcomes, servedOk, linksGiven, rowsGiven, enumerated>>
actVars == <<actPc, req, requestID, currentUserPrincipalID, eligibilityScheduleID,
             requestBody, actErr, actCalls>>

----------------------------------------------------------------------------
(* Bounds *)

MaxSubs  == 2      \* subscriptions returned by `az account list`
MaxLinks == 2      \* continuation links the API hands out during one run
MaxRows  == 3      \* rows the API serves during one run

SeqsUpTo(S, n) == UNION {[1..k -> S] : k \in 0..n}

----------------------------------------------------------------------------
(* Strings and URLs *)

EmptyString == << >>

MgmtHost == <<"https://management.azure.com">>

EligibilityInstancesPath ==
    <<"/providers/Microsoft.Authorization/roleEligibilityScheduleInstances?api-version=2020-10-01&$filter=asTarget()&$expand=roleDefinition,principal">>

\* scope := fmt.Sprintf("/subscriptions/%s", sub.ID)
SubscriptionScope(sub) == <<"/subscriptions/">> \o sub.id

\* getEligibleRolesAtScope: the URL queried for a scope ("" = tenant root)
ScopeURL(scope) ==
    IF scope = EmptyString
    THEN MgmtHost \o EligibilityInstancesPath
    ELSE MgmtHost \o scope \o EligibilityInstancesPath

----------------------------------------------------------------------------
(* What the az executor can answer *)

ItemIds == {<<"/", "a">>, <<"/", "b">>}
ItemPrincipals == {<<"u">>, <<"g">>}

\* one element of response.Value
ItemRoleDefs == {<<"rd1">>}
ItemScopes == {<<"/subscriptions/", "sub'">>}
Items == [id : ItemIds, roleDefinitionId : ItemRoleDefs, scope : ItemScopes,
          principalId : ItemPrincipals]

\* the i-th subscription `az account list` reports
SubAt(i) == [id |-> <<"sub">> \o [k \in 1..i |-> "'"]]

\* `az account list`: command failure, unparsable output, or a list
SubsResponses ==
    {[kind |-> "fail", subs |-> << >>], [kind |-> "bad", subs |-> << >>]}
    \cup {[kind |-> "ok", subs |-> [i \in 1..n |-> SubAt(i)]] : n \in 0..MaxSubs}

\* the k-th continuation link the API hands out
LinkToken(k) == <<"https://management.azure.com/next?$skiptoken=">> \o [i \in 1..k |-> "1"]

\* one eligibility page: command failure, unparsable output, or value + nextLink
PageResponses ==
    {[kind |-> "fail", value |-> << >>, nextLink |-> EmptyString],
     [kind |-> "bad",  value |-> << >>, nextLink |-> EmptyString]}
    \cup {[kind |-> "ok", value |-> v, nextLink |-> l] :
            v \in SeqsUpTo(Items, MaxRows - rowsGiven),
            l \in {EmptyString} \cup
                  (IF linksGiven < MaxLinks THEN {LinkToken(linksGiven + 1)} ELSE {})}

RECURSIVE Flatten(_)
Flatten(ss) == IF ss = << >> THEN << >> ELSE Head(ss) \o Flatten(Tail(ss))

\* the rows of a sequence of logged GETs, in page order
RowsOf(ps) == Flatten([i \in 1..Len(ps) |-> ps[i].resp.value])

----------------------------------------------------------------------------
(* fetchEligibleRoles *)

DefaultMaxDuration == 480

\* the per-row mapping of fetchEligibleRoles
ToRole(item) ==
    [ID               |-> item.id,
     EligibilityID    |-> item.id,
     RoleDefinitionID |-> item.roleDefinitionId,
     Scope            |-> item.scope,
     PrincipalID      |-> item.principalId,
     MaxDuration      |-> DefaultMaxDuration]

MapItems(value) == [i \in 1..Len(value) |-> ToRole(value[i])]

\* (mutation) a failed page ends the loop with the rows read so far and no error
FetchIteration_PartialOnError(acc, resp) ==
    IF resp.kind # "ok"
    THEN [returned |-> TRUE, roles |-> acc, err |-> FALSE,
          acc |-> acc, url |-> EmptyString]
    ELSE LET acc2 == acc \o MapItems(resp.value)
         IN  IF resp.nextLink = EmptyString
             THEN [returned |-> TRUE, roles |-> acc2, err |-> FALSE,
                   acc |-> acc2, url |-> EmptyString]
             ELSE [returned |-> FALSE, roles |-> << >>, err |-> FALSE,
                   acc |-> acc2, url |-> resp.nextLink]

\* (mutation) unparsable output ends the loop with the rows read so far
FetchIteration_RowsKeptOnParseError(acc, resp) ==
    IF resp.kind = "fail"
    THEN [returned |-> TRUE, roles |-> << >>, err |-> TRUE,
          acc |-> acc, url |-> EmptyString]
    ELSE IF resp.kind = "bad"
    THEN [returned |-> TRUE, roles |-> acc, err |-> FALSE,
          acc |-> acc, url |-> EmptyString]
    ELSE LET acc2 == acc \o MapItems(resp.value)
         IN  IF resp.nextLink = EmptyString
             THEN [returned |-> TRUE, roles |-> acc2, err |-> FALSE,
                   acc |-> acc2, url |-> EmptyString]
             ELSE [returned |-> FALSE, roles |-> << >>, err |-> FALSE,
                   acc |-> acc2, url |-> resp.nextLink]

\* (mutation) the continuation link is not followed
FetchIteration_FirstPageOnly(acc, resp) ==
    IF resp.kind # "ok"
    THEN [returned |-> TRUE, roles |-> << >>, err |-> TRUE,
          acc |-> acc, url |-> EmptyString]
    ELSE [returned |-> TRUE, roles |-> acc \o MapItems(resp.value), err |-> FALSE,
          acc |-> acc \o MapItems(resp.value), url |-> EmptyString]

\* One iteration of `for url != ""`: run the GET, parse, append the rows and
\* follow response.NextLink.  returned = the function has returned (roles, err).
FetchIteration(acc, resp) ==
    IF resp.kind # "ok"
    THEN [returned |-> TRUE, roles |-> << >>, err |-> TRUE,
          acc |-> acc, url |-> EmptyString]
    ELSE LET acc2 == acc \o MapItems(resp.value)
         IN  IF resp.nextLink = EmptyString
             THEN [returned |-> TRUE, roles |-> acc2, err |-> FALSE,
                   acc |-> acc2, url |-> EmptyString]
             ELSE [returned |-> FALSE, roles |-> << >>, err |-> FALSE,
                   acc |-> acc2, url |-> resp.nextLink]

----------------------------------------------------------------------------
(* GetEligibleRoleAssignments *)

\* `if err == nil { allRoles = append(allRoles, roles...) }` / `continue`
AppendScope(all, rs, e) == IF e THEN all ELSE all \o rs

\* (mutation) only a failed command counts; unparsable output is read as no subscriptions
EnumerationFailed_CommandOnly(resp) == resp.kind = "fail"

\* `if err != nil` after getSubscriptions: runAzCommand failed or json.Unmarshal failed
EnumerationFailed(resp) == resp.kind # "ok"

RECURSIVE DedupLoop(_, _, _)
DedupLoop(rs, seen, unique) ==
    IF rs = << >> THEN unique
    ELSE LET role == Head(rs)
         IN  IF role.ID \in seen
             THEN DedupLoop(Tail(rs), seen, unique)
             ELSE DedupLoop(Tail(rs), seen \cup {role.ID}, Append(unique, role))

\* (mutation) a later entry with a seen ID overwrites the one kept
Deduplicate_KeepLast(rs) ==
    LET first == DedupLoop(rs, {}, << >>)
        LastAt(id) == CHOOSE i \in 1..Len(rs) :
                        rs[i].ID = id /\ \A j \in (i + 1)..Len(rs) : rs[j].ID # id
    IN  [k \in 1..Len(first) |-> rs[LastAt(first[k].ID)]]

\* the seen-map loop at the end of GetEligibleRoleAssignments
Deduplicate(rs) == DedupLoop(rs, {}, << >>)

\* (mutation) the tenant root is queried after the subscriptions
ScopeAt_TenantLast(i) ==
    IF i = Len(subscriptions) THEN EmptyString ELSE SubscriptionScope(subscriptions[i + 1])

\* the scope queried at position i: tenant root, then the subscriptions
ScopeAt(i) == IF i = 0 THEN EmptyString ELSE SubscriptionScope(subscriptions[i])

AggInit ==
    /\ aggPc = "getSubscriptions"
    /\ subscriptions = << >>
    /\ scopeIdx = 0
    /\ url = EmptyString
    /\ fetched = << >>
    /\ roles = << >>
    /\ err = FALSE
    /\ allRoles = << >>
    /\ uniqueRoles = << >>
    /\ aggErr = FALSE

EnvInit ==
    /\ pages = << >>
    /\ outcomes = << >>
    /\ servedOk = << >>
    /\ linksGiven = 0
    /\ rowsGiven = 0
    /\ enumerated = "not yet"

\* getSubscriptions and the error return that follows it
GetSubscriptions ==
    /\ aggPc = "getSubscriptions"
    /\ \E resp \in SubsResponses :
         /\ enumerated' = resp.kind
         /\ IF EnumerationFailed(resp)
            THEN /\ aggErr' = TRUE
                 /\ aggPc' = "returned"
                 /\ UNCHANGED subscriptions
            ELSE /\ subscriptions' = resp.subs
                 /\ aggPc' = "scope"
                 /\ UNCHANGED aggErr
    /\ UNCHANGED <<scopeIdx, url, fetched, roles, err, allRoles, uniqueRoles>>
    /\ UNCHANGED <<pages, outcomes, servedOk, linksGiven, rowsGiven>>

\* getEligibleRolesAtScope(scope): build the URL and enter fetchEligibleRoles
QueryScope ==
    /\ aggPc = "scope"
    /\ scopeIdx <= Len(subscriptions)
    /\ url' = ScopeURL(ScopeAt(scopeIdx))
    /\ fetched' = << >>
    /\ pages' = << >>
    /\ aggPc' = "fetch"
    /\ UNCHANGED <<subscriptions, scopeIdx, roles, err, allRoles, uniqueRoles, aggErr>>
    /\ UNCHANGED <<outcomes, servedOk, linksGiven, rowsGiven, enumerated>>

\* the executor's bookkeeping of one answered GET
Served(resp) ==
    /\ pages' = Append(pages, [url |-> url, resp |-> resp])
    /\ rowsGiven' = rowsGiven + Len(resp.value)
    /\ linksGiven' = IF resp.nextLink # EmptyString THEN linksGiven + 1 ELSE linksGiven
    /\ IF resp.kind # "ok"
       THEN outcomes' = Append(outcomes, "failed") /\ UNCHANGED servedOk
       ELSE IF resp.nextLink = EmptyString
            THEN /\ outcomes' = Append(outcomes, "ok")
                 /\ servedOk' = servedOk \o RowsOf(pages')
            ELSE UNCHANGED <<outcomes, servedOk>>

\* one GET of fetchEligibleRoles; when the loop ends, the caller's handling of
\* (roles, err) and the move to the next scope
FetchPage ==
    /\ aggPc = "fetch"
    /\ url # EmptyString
    /\ \E resp \in PageResponses :
         LET r == FetchIteration(fetched, resp)
         IN  /\ Served(resp)
             /\ url' = r.url
             /\ IF r.returned
                THEN /\ roles' = r.roles
                     /\ err' = r.err
                     /\ fetched' = << >>
                     /\ allRoles' = AppendScope(allRoles, r.roles, r.err)
                     /\ scopeIdx' = scopeIdx + 1
                     /\ aggPc' = "scope"
                ELSE /\ fetched' = r.acc
                     /\ UNCHANGED <<roles, err, allRoles, scopeIdx, aggPc>>
    /\ UNCHANGED <<subscriptions, uniqueRoles, aggErr, enumerated>>

\* all scopes exhausted: deduplicate and return
ReturnUnique ==
    /\ aggPc = "scope"
    /\ scopeIdx > Len(subscriptions)
    /\ uniqueRoles' = Deduplicate(allRoles)
    /\ aggPc' = "returned"
    /\ UNCHANGED <<subscriptions, scopeIdx, url, fetched, roles, err, allRoles, aggErr>>
    /\ UNCHANGED envVars

----------------------------------------------------------------------------
(* fetchEligibleRoles against an API that is free to repeat its links *)

MaxRequests == 4   \* GETs of one scope query that are followed

\* one eligibility page whose nextLink is any link, the requested one included
AnyPageResponses ==
    {[kind |-> "fail", value |-> << >>, nextLink |-> EmptyString],
     [kind |-> "bad",  value |-> << >>, nextLink |-> EmptyString]}
    \cup {[kind |-> "ok", value |-> v, nextLink |-> l] :
            v \in {<< >>,
                   <<[id |-> <<"/", "a">>, roleDefinitionId |-> <<"rd1">>,
                      scope |-> <<"/subscriptions/", "sub'">>, principalId |-> <<"u">>]>>},
            l \in {EmptyString} \cup {LinkToken(k) : k \in 1..MaxLinks}}

\* fetchEligibleRoles is entered with the tenant-root URL
FetchInit ==
    /\ aggPc = "fetch"
    /\ subscriptions = << >>
    /\ scopeIdx = 0
    /\ url = ScopeURL(EmptyString)
    /\ fetched = << >>
    /\ roles = << >>
    /\ err = FALSE
    /\ allRoles = << >>
    /\ uniqueRoles = << >>
    /\ aggErr = FALSE
    /\ EnvInit

\* one GET of fetchEligibleRoles, up to its return
FetchAnyPage ==
    /\ aggPc = "fetch"
    /\ url # EmptyString
    /\ Len(pages) < MaxRequests
    /\ \E resp \in AnyPageResponses :
         LET r == FetchIteration(fetched, resp)
         IN  /\ pages' = Append(pages, [url |-> url, resp |-> resp])
             /\ url' = r.url
             /\ IF r.returned
                THEN /\ roles' = r.roles
                     /\ err' = r.err
                     /\ fetched' = << >>
                     /\ aggPc' = "fetched"
                ELSE /\ fetched' = r.acc
                     /\ UNCHANGED <<roles, err, aggPc>>
    /\ UNCHANGED <<subscriptions, scopeIdx, allRoles, uniqueRoles, aggErr>>
    /\ UNCHANGED <<outcomes, servedOk, linksGiven, rowsGiven, enumerated>>

\* C28: within one scope query fetchEligibleRoles never requests the same
\* URL twice.
C28_NoLinkRequestedTwice ==
    \A i, j \in 1..Len(pages) : i # j => pages[i].url # pages[j].url

----------------------------------------------------------------------------
(* Properties of the eligibility aggregator *)

Returned == aggPc = "returned"

\* the scope whose query is in progress or has just returned
LastScopeIdx == IF aggPc = "fetch" THEN scopeIdx ELSE scopeIdx - 1

\* what the result must be built from: the rows of the succeeded scopes, in the
\* order the executor served them
ServedRoles ==
    [i \in 1..Len(servedOk) |->
        [ID |-> servedOk[i].id, EligibilityID |-> servedOk[i].id,
         RoleDefinitionID |-> servedOk[i].roleDefinitionId, Scope |-> servedOk[i].scope,
         PrincipalID |-> servedOk[i].principalId, MaxDuration |-> 480]]

IsFirstOccurrence(s, i) == \A j \in 1..(i - 1) : s[j].ID # s[i].ID

RECURSIVE FirstOccurrences(_, _)
FirstOccurrences(s, i) ==
    IF i > Len(s) THEN << >>
    ELSE (IF IsFirstOccurrence(s, i) THEN <<s[i]>> ELSE << >>) \o FirstOccurrences(s, i + 1)

\* C3: whatever subset of the scope queries fails, the aggregation returns no
\* error and its result is exactly the deduplicated concatenation of the rows
\* of the scopes that succeeded.
C3_ScopeFailureTolerance ==
    (Returned /\ enumerated = "ok") =>
        /\ ~aggErr
        /\ Len(outcomes) = Len(subscriptions) + 1
        /\ uniqueRoles = FirstOccurrences(ServedRoles, 1)

\* a middle scope failed after serving a page, its neighbours succeeded with rows
C3_Witness ==
    /\ Returned
    /\ outcomes = <<"ok", "failed", "ok">>
    /\ rowsGiven > Len(servedOk)
    /\ Len(uniqueRoles) = 2
    /\ ~aggErr

\* C4: the aggregation returns an error if and only if the subscription
\* enumeration failed (command failure or unparsable output); failed scope
\* queries never produce an error, they only leave rows out.
C4_OnlyEnumerationIsFatal ==
    Returned =>
        /\ aggErr <=> enumerated \in {"fail", "bad"}
        /\ aggErr => uniqueRoles = << >> /\ outcomes = << >>
        /\ \A i \in 1..Len(uniqueRoles) : \E j \in 1..Len(servedOk) :
              uniqueRoles[i].ID = servedOk[j].id

\* every scope query failed, the tenant root included: an empty list, no error
C4_Witness ==
    /\ Returned
    /\ enumerated = "ok"
    /\ outcomes = <<"failed", "failed", "failed">>
    /\ uniqueRoles = << >>
    /\ ~aggErr

\* C5: the returned list has no two entries with the same ID, contains every
\* ID a succeeded scope returned, is ordered by first occurrence in the
\* concatenation, and keeps the first-seen entry of a duplicated ID.
C5_Deduplication ==
    (Returned /\ ~aggErr) =>
        LET all == ServedRoles
            FirstIdx(id) == CHOOSE i \in 1..Len(all) :
                              all[i].ID = id /\ IsFirstOccurrence(all, i)
        IN  /\ \A i, j \in 1..Len(uniqueRoles) :
                  i # j => uniqueRoles[i].ID # uniqueRoles[j].ID
            /\ {uniqueRoles[i].ID : i \in 1..Len(uniqueRoles)}
                  = {all[i].ID : i \in 1..Len(all)}
            /\ \A i \in 1..Len(uniqueRoles) :
                  uniqueRoles[i] = all[FirstIdx(uniqueRoles[i].ID)]
            /\ \A i, j \in 1..Len(uniqueRoles) :
                  i < j => FirstIdx(uniqueRoles[i].ID) < FirstIdx(uniqueRoles[j].ID)

\* an ID served twice with different contents, another ID between the two
C5_Witness ==
    /\ Returned
    /\ Len(servedOk) = 3
    /\ servedOk[1].id = servedOk[3].id
    /\ servedOk[1] # servedOk[3]
    /\ servedOk[2].id # servedOk[1].id
    /\ Len(uniqueRoles) = 2

\* the URL a scope query must start from
FirstURL(i) ==
    IF i = 0
    THEN <<"https://management.azure.com">> \o EligibilityInstancesPath
    ELSE <<"https://management.azure.com", "/subscriptions/">> \o subscriptions[i].id
         \o EligibilityInstancesPath

\* C6: for a chain of n pages and no failing request, fetchEligibleRoles
\* issues one request per page in chain order (the scope URL, then each
\* page's nextLink), none after the page with the empty nextLink, and returns
\* the rows of all n pages in page order.
C6_Pagination ==
    /\ \A i \in 1..Len(pages) :
          /\ pages[i].url = (IF i = 1 THEN FirstURL(LastScopeIdx)
                             ELSE pages[i - 1].resp.nextLink)
          /\ i < Len(pages) =>
                pages[i].resp.kind = "ok" /\ pages[i].resp.nextLink # EmptyString
    /\ (aggPc = "fetch" /\ pages # << >>) =>
          /\ pages[Len(pages)].resp.kind = "ok"
          /\ pages[Len(pages)].resp.nextLink # EmptyString
    /\ (aggPc = "scope" /\ scopeIdx > 0
            /\ \A i \in 1..Len(pages) : pages[i].resp.kind = "ok") =>
          /\ pages # << >>
          /\ pages[Len(pages)].resp.nextLink = EmptyString
          /\ ~err
          /\ Len(roles) = Len(RowsOf(pages))
          /\ \A k \in 1..Len(roles) :
                /\ roles[k].ID = RowsOf(pages)[k].id
                /\ roles[k].PrincipalID = RowsOf(pages)[k].principalId

\* a chain of three pages, each with a row, fetched with three requests
C6_Witness ==
    /\ aggPc = "scope"
    /\ Len(pages) = 3
    /\ \A i \in 1..3 : pages[i].resp.kind = "ok" /\ Len(pages[i].resp.value) = 1
    /\ Len(roles) = 3
    /\ ~err

\* C27: a scope whose query failed on any page adds nothing to allRoles,
\* whatever its earlier pages served; a scope whose query succeeded adds all
\* its rows; so every row a succeeded scope served has its ID in the result.
C27_ScopeAllOrNothing ==
    /\ aggPc = "scope" => allRoles = ServedRoles
    /\ aggPc = "fetch" => (allRoles = ServedRoles /\ fetched = MapItems(RowsOf(pages)))
    /\ (Returned /\ enumerated = "ok") =>
          {uniqueRoles[i].ID : i \in 1..Len(uniqueRoles)}
             = {servedOk[i].id : i \in 1..Len(servedOk)}

\* the second scope has just failed on its second page after a first page
\* with a row; the same ID, served by the first scope, is in allRoles
C27_Witness ==
    /\ aggPc = "scope"
    /\ outcomes = <<"ok", "failed">>
    /\ Len(pages) = 2
    /\ Len(pages[1].resp.value) = 1
    /\ Len(allRoles) = 1
    /\ allRoles[1].ID = pages[1].resp.value[1].id

UnscopedURL == <<"https://management.azure.com">> \o EligibilityInstancesPath

\* C20 as stated: every aggregation run issues the tenant-root query, and
\* issues it before the subscription enumeration.
C20_TenantRootBeforeEnumeration ==
    /\ (aggPc = "fetch" /\ scopeIdx = 0) => enumerated = "not yet"
    /\ Returned => outcomes # << >>

\* C20 (amended): a run whose subscription enumeration succeeded issues the
\* tenant-root query, after the enumeration and before every
\* subscription-scoped query; a run whose enumeration failed issues no
\* eligibility query; a failed tenant-root query never fails the aggregation.
C20_TenantRootAfterEnumeration ==
    /\ aggPc \in {"scope", "fetch"} => enumerated = "ok"
    /\ (aggPc = "fetch" /\ outcomes = << >>) => url = UnscopedURL \/ pages # << >>
    /\ (outcomes = << >> /\ pages # << >>) => pages[1].url = UnscopedURL
    /\ (aggPc = "fetch" /\ outcomes # << >> /\ Len(pages) <= 1) =>
          (IF pages = << >> THEN url ELSE pages[1].url)
             = <<"https://management.azure.com", "/subscriptions/">>
                  \o subscriptions[Len(outcomes)].id \o EligibilityInstancesPath
    /\ (Returned /\ enumerated = "ok") => outcomes # << >>
    /\ (Returned /\ enumerated # "ok") => outcomes = << >> /\ pages = << >>
    /\ (Returned /\ outcomes # << >> /\ outcomes[1] = "failed") => ~aggErr

\* the tenant-root query failed, a subscription delivered a role
C20_Witness ==
    /\ Returned
    /\ outcomes = <<"failed", "ok">>
    /\ Len(uniqueRoles) = 1
    /\ ~aggErr

----------------------------------------------------------------------------
(* String helpers used by ActivateRole *)

IsSpace(c) == c \in {" ", "\n", "\t", "\r"}

RECURSIVE TrimLeft(_)
TrimLeft(s) == IF s # << >> /\ IsSpace(Head(s)) THEN TrimLeft(Tail(s)) ELSE s

RECURSIVE TrimRight(_)
TrimRight(s) ==
    IF s # << >> /\ IsSpace(s[Len(s)]) THEN TrimRight(SubSeq(s, 1, Len(s) - 1)) ELSE s

\* strings.TrimSpace
TrimSpace(s) == TrimRight(TrimLeft(s))

RECURSIVE SplitLoop(_, _, _)
SplitLoop(s, cur, parts) ==
    IF s = << >> THEN Append(parts, cur)
    ELSE IF Head(s) = "/"
         THEN SplitLoop(Tail(s), << >>, Append(parts, cur))
         ELSE SplitLoop(Tail(s), Append(cur, Head(s)), parts)

\* strings.Split(path, "/")
SplitSlash(path) == SplitLoop(path, << >>, << >>)

\* (mutation) the first segment is taken
extractLastSegment_First(path) ==
    LET parts == SplitSlash(path)
    IN  IF Len(parts) > 0 THEN parts[1] ELSE path

extractLastSegment(path) ==
    LET parts == SplitSlash(path)
    IN  IF Len(parts) > 0 THEN parts[Len(parts)] ELSE path

Digits == <<"0", "1", "2", "3", "4", "5", "6", "7", "8", "9">>

\* (mutation) the digits come out lowest first
RECURSIVE FormatInt_LowDigitFirst(_)
FormatInt_LowDigitFirst(n) ==
    IF n < 0 THEN <<"-">> \o FormatInt_LowDigitFirst(-n)
    ELSE IF n < 10 THEN <<Digits[n + 1]>>
    ELSE <<Digits[(n % 10) + 1]>> \o FormatInt_LowDigitFirst(n \div 10)

\* the %d verb of fmt.Sprintf
RECURSIVE FormatInt(_)
FormatInt(n) ==
    IF n < 0 THEN <<"-">> \o FormatInt(-n)
    ELSE IF n < 10 THEN <<Digits[n + 1]>>
    ELSE FormatInt(n \div 10) \o <<Digits[(n % 10) + 1]>>

----------------------------------------------------------------------------
(* Inputs and executor answers of ActivateRole *)

MaxIdLen      == 3     \* characters of the selected role's instance ID
MaxOutLen     == 2     \* characters `az ad signed-in-user show` prints
MaxSchedules  == 2     \* rows of the eligibility-schedule lookup

ActRoleIds     == SeqsUpTo({"/", "a"}, MaxIdLen)
ActScopes      == {EmptyString, <<"/subscriptions/", "sub'">>}
ActRoleDefs    == {<<"rd1">>}
ActPrincipals  == {<<"u">>, <<"g">>}
Durations      == {90}
Justifications == {<<"why">>}
TicketNumbers  == {EmptyString, <<"T1">>}
TicketSystems  == {EmptyString, <<"Jira">>}

\* roles as fetchEligibleRoles builds them
ActRoles ==
    {ToRole(i) : i \in [id : ActRoleIds, roleDefinitionId : ActRoleDefs,
                        scope : ActScopes, principalId : ActPrincipals]}

ActivationRequests ==
    [Role : ActRoles, Duration : Durations, Justification : Justifications,
     TicketNumber : TicketNumbers, TicketSystem : TicketSystems]

\* requests that vary the flags --duration, --ticket-number and --ticket-system
FlagDurations == {-5, 0, 7, 90, 105, 480, 1440}
FlagRoles ==
    {ToRole(i) : i \in [id : {<<"/", "a">>}, roleDefinitionId : ActRoleDefs,
                        scope : ActScopes, principalId : ActPrincipals]}
FlagRequests ==
    [Role : FlagRoles, Duration : FlagDurations, Justification : Justifications,
     TicketNumber : TicketNumbers, TicketSystem : TicketSystems]

\* uuid.New().String()
RequestIds == {<<"uuid-1">>, <<"uuid-2">>}

\* `az ad signed-in-user show --query id --output tsv`
PrincipalResponses ==
    {[kind |-> "fail", out |-> EmptyString]}
    \cup {[kind |-> "ok", out |-> o] : o \in SeqsUpTo({"u", "g", "\n"}, MaxOutLen)}

ScheduleRows ==
    {[id |-> <<"/", "x", "/", "n">>, name |-> <<"n">>],
     [id |-> <<"/", "x", "/", "a">>, name |-> <<"a">>],
     [id |-> <<"/", "x", "/", "m">>, name |-> EmptyString]}

\* the roleEligibilitySchedules GET
ScheduleResponses ==
    {[kind |-> "fail", value |-> << >>], [kind |-> "bad", value |-> << >>]}
    \cup {[kind |-> "ok", value |-> v] : v \in SeqsUpTo(ScheduleRows, MaxSchedules)}

\* the roleAssignmentScheduleRequests PUT
PutResponses == {[kind |-> "fail"], [kind |-> "ok"]}

----------------------------------------------------------------------------
(* ActivateRole *)

PrincipalArgs ==
    [cmd |-> "ad signed-in-user show --query id --output tsv",
     method |-> "", url |-> EmptyString, body |-> << >>]

RestArgs(m, u, b) == [cmd |-> "rest", method |-> m, url |-> u, body |-> b]

\* (mutation) a failed directory query is swallowed: no identifier, no error
GetCurrentUserPrincipalID_Swallowed(resp) ==
    IF resp.kind # "ok"
    THEN [id |-> EmptyString, err |-> FALSE]
    ELSE [id |-> TrimSpace(resp.out), err |-> FALSE]

\* GetCurrentUserPrincipalID, given what the executor answered
GetCurrentUserPrincipalID(resp) ==
    IF resp.kind # "ok"
    THEN [id |-> EmptyString, err |-> TRUE]
    ELSE [id |-> TrimSpace(resp.out), err |-> FALSE]

SchedulesPathAndPrincipalFilter ==
    "/providers/Microsoft.Authorization/roleEligibilitySchedules?api-version=2020-10-01&$filter=principalId eq '"

RoleDefinitionFilter == "' and roleDefinitionId eq '"

\* the URL getEligibilityScheduleID queries
ScheduleLookupURL(scope, roleDefinitionID, principalID) ==
    MgmtHost \o scope \o <<SchedulesPathAndPrincipalFilter>>
    \o principalID \o <<RoleDefinitionFilter>> \o roleDefinitionID \o <<"'">>

\* (mutation) the lookup is filtered by the activating principal
ScheduleLookupCall_ActivatingPrincipal(r, currentUser) ==
    ScheduleLookupURL(r.Role.Scope, r.Role.RoleDefinitionID, currentUser)

\* ActivateRole's call getEligibilityScheduleID(req.Role.Scope, req.Role.RoleDefinitionID, req.Role.PrincipalID)
ScheduleLookupCall(r, currentUser) ==
    ScheduleLookupURL(r.Role.Scope, r.Role.RoleDefinitionID, r.Role.PrincipalID)

\* (mutation) the full resource id of the first row is returned instead of its name
getEligibilityScheduleID_FullId(resp) ==
    IF resp.kind # "ok" THEN [id |-> EmptyString, err |-> TRUE]
    ELSE IF Len(resp.value) = 0 THEN [id |-> EmptyString, err |-> TRUE]
    ELSE [id |-> resp.value[1].id, err |-> FALSE]

\* getEligibilityScheduleID, given what the executor answered
getEligibilityScheduleID(resp) ==
    IF resp.kind # "ok" THEN [id |-> EmptyString, err |-> TRUE]
    ELSE IF Len(resp.value) = 0 THEN [id |-> EmptyString, err |-> TRUE]
    ELSE [id |-> resp.value[1].name, err |-> FALSE]

\* `if err != nil { eligibilityScheduleID = extractLastSegment(req.Role.ID) }`
LinkedScheduleID(r, resp) ==
    LET found == getEligibilityScheduleID(resp)
    IN  IF found.err THEN extractLastSegment(r.Role.ID) ELSE found.id

StartDateTime == <<"time.Now().UTC().Format(time.RFC3339)">>

\* (mutation) both fields are always written
TicketInfo_BothFields(r) ==
    [k \in {"ticketNumber", "ticketSystem"}
       |-> IF k = "ticketNumber" THEN r.TicketNumber ELSE r.TicketSystem]

\* the ticketInfo map: only the non-empty fields
TicketInfo(r) ==
    [k \in (IF r.TicketNumber # EmptyString THEN {"ticketNumber"} ELSE {})
           \cup (IF r.TicketSystem # EmptyString THEN {"ticketSystem"} ELSE {})
       |-> IF k = "ticketNumber" THEN r.TicketNumber ELSE r.TicketSystem]

\* the requestBody map for a given principalId, with ticketInfo added when provided
RequestBodyFor(r, principal, scheduleID) ==
    LET base ==
          [principalId                     |-> principal,
           roleDefinitionId                |-> r.Role.RoleDefinitionID,
           requestType                     |-> "SelfActivate",
           linkedRoleEligibilityScheduleId |-> scheduleID,
           justification                   |-> r.Justification,
           scheduleInfo |->
             [startDateTime |-> StartDateTime,
              expiration |-> [type |-> "AfterDuration",
                              duration |-> <<"P", "T">> \o FormatInt(r.Duration) \o <<"M">>]]]
    IN  IF r.TicketNumber # EmptyString \/ r.TicketSystem # EmptyString
        THEN [properties |->
                [k \in DOMAIN base \cup {"ticketInfo"} |->
                   IF k = "ticketInfo" THEN TicketInfo(r) ELSE base[k]]]
        ELSE [properties |-> base]

\* (mutation) the body carries the eligibility principal
BuildRequestBody_EligibilityPrincipal(r, currentUser, scheduleID) ==
    RequestBodyFor(r, r.Role.PrincipalID, scheduleID)

\* the body ActivateRole builds: "principalId": currentUserPrincipalID
BuildRequestBody(r, currentUser, scheduleID) ==
    RequestBodyFor(r, currentUser, scheduleID)

RequestsPath == "/providers/Microsoft.Authorization/roleAssignmentScheduleRequests/"

\* the URL of the activation PUT
ActivationURL(r, id) ==
    MgmtHost \o r.Role.Scope \o <<RequestsPath>> \o id \o <<"?api-version=2020-10-01">>

\* (mutation) the executor's rejection of the PUT is dropped
ActivationFailed_Ignored(resp) == FALSE

\* `if err != nil { return fmt.Errorf("activation request failed: %w", err) }`
ActivationFailed(resp) == resp.kind # "ok"

NoRequest == [Role |-> ToRole([id |-> EmptyString, roleDefinitionId |-> EmptyString,
                               scope |-> EmptyString, principalId |-> EmptyString]),
              Duration |-> 0, Justification |-> EmptyString,
              TicketNumber |-> EmptyString, TicketSystem |-> EmptyString]

ActLocalsInit ==
    /\ requestID = EmptyString
    /\ currentUserPrincipalID = EmptyString
    /\ eligibilityScheduleID = EmptyString
    /\ requestBody = << >>
    /\ actErr = FALSE
    /\ actCalls = << >>

\* ActivateRole is called with some request
ActInit ==
    /\ actPc = "resolve"
    /\ req \in ActivationRequests
    /\ ActLocalsInit

\* ActivateRole is called with a request built from the command-line flags
ActInitFlags ==
    /\ actPc = "resolve"
    /\ req \in FlagRequests
    /\ ActLocalsInit

\* ActivateRole is not running
ActIdle ==
    /\ actPc = "idle"
    /\ req = NoRequest
    /\ ActLocalsInit

\* uuid.New(), GetCurrentUserPrincipalID and the error return that follows it
ResolvePrincipal ==
    /\ actPc = "resolve"
    /\ \E id \in RequestIds, resp \in PrincipalResponses :
         LET got == GetCurrentUserPrincipalID(resp)
         IN  /\ requestID' = id
             /\ actCalls' = Append(actCalls, [args |-> PrincipalArgs, resp |-> resp])
             /\ currentUserPrincipalID' = got.id
             /\ IF got.err
                THEN actErr' = TRUE /\ actPc' = "returned"
                ELSE actErr' = FALSE /\ actPc' = "lookup"
    /\ UNCHANGED <<req, eligibilityScheduleID, requestBody>>

\* getEligibilityScheduleID with its fallback, and the building of the body
LookupSchedule ==
    /\ actPc = "lookup"
    /\ \E resp \in ScheduleResponses :
         LET call == RestArgs("GET", ScheduleLookupCall(req, currentUserPrincipalID), << >>)
             sid  == LinkedScheduleID(req, resp)
         IN  /\ actCalls' = Append(actCalls, [args |-> call, resp |-> resp])
             /\ eligibilityScheduleID' = sid
             /\ requestBody' = BuildRequestBody(req, currentUserPrincipalID, sid)
    /\ actPc' = "submit"
    /\ UNCHANGED <<req, requestID, currentUserPrincipalID, actErr>>

\* the PUT and ActivateRole's return
SubmitActivation ==
    /\ actPc = "submit"
    /\ \E resp \in PutResponses :
         LET call == RestArgs("PUT", ActivationURL(req, requestID), requestBody)
         IN  /\ actCalls' = Append(actCalls, [args |-> call, resp |-> resp])
             /\ actErr' = ActivationFailed(resp)
    /\ actPc' = "returned"
    /\ UNCHANGED <<req, requestID, currentUserPrincipalID, eligibilityScheduleID, requestBody>>

----------------------------------------------------------------------------
(* Properties of ActivateRole *)

ActReturned == actPc = "returned"

CallsWith(m) == {i \in 1..Len(actCalls) : actCalls[i].args.method = m}

\* position of a marker token in a URL (0 when absent)
MarkerAt(u, tok) ==
    IF \E i \in 1..Len(u) : u[i] = tok THEN CHOOSE i \in 1..Len(u) : u[i] = tok ELSE 0

NoSpaceAtEnds(s) ==
    s = << >> \/ (s[1] \notin {" ", "\n", "\t", "\r"} /\ s[Len(s)] \notin {" ", "\n", "\t", "\r"})

\* t is raw with the white space around it removed
IsTrimOf(t, raw) ==
    /\ NoSpaceAtEnds(t)
    /\ \E a \in 0..Len(raw) :
          /\ a + Len(t) <= Len(raw)
          /\ SubSeq(raw, a + 1, a + Len(t)) = t
          /\ \A i \in (1..a) \cup ((a + Len(t) + 1)..Len(raw)) :
                raw[i] \in {" ", "\n", "\t", "\r"}

\* C1: every activation body submitted carries the identifier that
\* GetCurrentUserPrincipalID returned for this attempt; when the role's
\* eligibility principal differs from it, the body does not carry that one.
C1_BodyCarriesActivatingPrincipal ==
    \A i \in CallsWith("PUT") :
        LET p == actCalls[i].args.body.properties.principalId
        IN  /\ actCalls[1].args.cmd = "ad signed-in-user show --query id --output tsv"
            /\ actCalls[1].resp.kind = "ok"
            /\ IsTrimOf(p, actCalls[1].resp.out)
            /\ p = currentUserPrincipalID
            /\ req.Role.PrincipalID # currentUserPrincipalID => p # req.Role.PrincipalID

\* group-based eligibility: the role records "g", the signed-in user is "u"
C1_Witness ==
    /\ ActReturned
    /\ CallsWith("PUT") # {}
    /\ req.Role.PrincipalID = <<"g">>
    /\ actCalls[1].resp.out = <<"u", "\n">>
    /\ actCalls[3].args.body.properties.principalId = <<"u">>

\* C2: the schedule lookup is filtered by the role's own PrincipalID and
\* RoleDefinitionID, at the role's Scope; the activating principal's identifier
\* is never the filter when it differs from the role's.
C2_LookupUsesEligibilityPrincipal ==
    \A i \in CallsWith("GET") :
        LET u  == actCalls[i].args.url
            pm == MarkerAt(u, SchedulesPathAndPrincipalFilter)
            rm == MarkerAt(u, RoleDefinitionFilter)
        IN  /\ 0 < pm /\ pm < rm /\ rm < Len(u)
            /\ SubSeq(u, 1, pm - 1) = <<"https://management.azure.com">> \o req.Role.Scope
            /\ SubSeq(u, pm + 1, rm - 1) = req.Role.PrincipalID
            /\ SubSeq(u, rm + 1, Len(u) - 1) = req.Role.RoleDefinitionID
            /\ req.Role.PrincipalID # currentUserPrincipalID =>
                  SubSeq(u, pm + 1, rm - 1) # currentUserPrincipalID

\* the lookup was issued while the two principals differ
C2_Witness ==
    /\ CallsWith("GET") # {}
    /\ req.Role.PrincipalID = <<"g">>
    /\ currentUserPrincipalID = <<"u">>
    /\ req.Role.Scope # EmptyString

\* s is the part of path after its last "/" (all of it when there is none)
IsLastSegmentOf(s, path) ==
    /\ \A i \in 1..Len(s) : s[i] # "/"
    /\ Len(s) <= Len(path)
    /\ SubSeq(path, Len(path) - Len(s) + 1, Len(path)) = s
    /\ Len(s) < Len(path) => path[Len(path) - Len(s)] = "/"

LookupAnswered == Len(actCalls) >= 2

LookupMissed ==
    /\ LookupAnswered
    /\ actCalls[2].resp.kind # "ok" \/ actCalls[2].resp.value = << >>

\* C7: when the schedule lookup fails, is unparsable or returns no rows,
\* ActivateRole does not fail because of it: the last path segment of the
\* role's instance ID becomes linkedRoleEligibilityScheduleId and the
\* activation is submitted.
C7_ScheduleFallback ==
    LookupMissed =>
        /\ IsLastSegmentOf(eligibilityScheduleID, req.Role.ID)
        /\ requestBody.properties.linkedRoleEligibilityScheduleId = eligibilityScheduleID
        /\ actPc \in {"submit", "returned"}
        /\ actPc = "submit" => ~actErr /\ ENABLED SubmitActivation
        /\ actPc = "returned" =>
              /\ Len(actCalls) = 3
              /\ actCalls[3].args.method = "PUT"
              /\ IsLastSegmentOf(
                    actCalls[3].args.body.properties.linkedRoleEligibilityScheduleId,
                    req.Role.ID)
              /\ actErr <=> actCalls[3].resp.kind # "ok"

\* zero rows for a role whose ID has several segments; the PUT went through
C7_Witness ==
    /\ ActReturned
    /\ LookupAnswered
    /\ actCalls[2].resp.kind = "ok"
    /\ actCalls[2].resp.value = << >>
    /\ req.Role.ID = <<"/", "a", "a">>
    /\ eligibilityScheduleID = <<"a", "a">>
    /\ ~actErr

\* C8: when the schedule lookup returns one or more rows, the
\* linkedRoleEligibilityScheduleId of the body is the name of the first row.
C8_FirstRowName ==
    (LookupAnswered /\ actCalls[2].resp.kind = "ok" /\ actCalls[2].resp.value # << >>) =>
        /\ eligibilityScheduleID = actCalls[2].resp.value[1].name
        /\ requestBody.properties.linkedRoleEligibilityScheduleId
              = actCalls[2].resp.value[1].name
        /\ \A i \in CallsWith("PUT") :
              actCalls[i].args.body.properties.linkedRoleEligibilityScheduleId
                 = actCalls[2].resp.value[1].name

\* two rows with different names; the first row's name differs from its id
\* and from the last segment of the role's ID
C8_Witness ==
    /\ ActReturned
    /\ Len(actCalls) = 3
    /\ Len(actCalls[2].resp.value) = 2
    /\ actCalls[2].resp.value[1].name = <<"n">>
    /\ actCalls[2].resp.value[2].name = <<"a">>
    /\ req.Role.ID = <<"/", "a">>
    /\ actCalls[3].args.body.properties.linkedRoleEligibilityScheduleId = <<"n">>

\* C9: at most one PUT per call and no retry; an error is returned whenever
\* the PUT is rejected, success only if the PUT was issued and succeeded; the
\* PUT URL is under the role's Scope and keyed by the generated request id.
C9_SinglePut ==
    /\ Cardinality(CallsWith("PUT")) <= 1
    /\ \A i \in CallsWith("PUT") :
          LET u == actCalls[i].args.url
              m == MarkerAt(u, RequestsPath)
          IN  /\ i = Len(actCalls)
              /\ ActReturned
              /\ actCalls[i].resp.kind # "ok" => actErr
              /\ 0 < m
              /\ SubSeq(u, 1, m - 1) = <<"https://management.azure.com">> \o req.Role.Scope
              /\ SubSeq(u, m + 1, Len(u) - 1) = requestID
              /\ requestID \in RequestIds
    /\ (ActReturned /\ ~actErr) =>
          \E i \in CallsWith("PUT") : actCalls[i].resp.kind = "ok"

\* the executor rejected the PUT
C9_Witness ==
    /\ ActReturned
    /\ Len(actCalls) = 3
    /\ actCalls[3].args.method = "PUT"
    /\ actCalls[3].resp.kind = "fail"
    /\ actErr

PrincipalQueryFailed == actCalls # << >> /\ actCalls[1].resp.kind # "ok"

\* C10: when the directory query for the signed-in user's object id fails,
\* ActivateRole returns an error without issuing the schedule lookup or the
\* PUT, and no body with a substitute principal is ever built.
C10_NoPrincipalNoActivation ==
    PrincipalQueryFailed =>
        /\ ActReturned
        /\ actErr
        /\ Len(actCalls) = 1
        /\ CallsWith("GET") = {} /\ CallsWith("PUT") = {}
        /\ requestBody = << >>
        /\ ~ENABLED LookupSchedule /\ ~ENABLED SubmitActivation

C10_Witness ==
    /\ PrincipalQueryFailed
    /\ ActReturned
    /\ req.Role.PrincipalID = <<"u">>

\* the body of the PUT, once it has been submitted
PutBodies == {actCalls[i].args.body : i \in CallsWith("PUT")}

\* C11: the submitted body has no ticketInfo when TicketNumber and
\* TicketSystem are both empty; otherwise ticketInfo holds ticketNumber iff
\* TicketNumber is non-empty, ticketSystem iff TicketSystem is non-empty,
\* and nothing else.
C11_TicketConditionality ==
    \A b \in PutBodies \cup (IF actPc = "submit" THEN {requestBody} ELSE {}) :
        LET props == b.properties
        IN  /\ "ticketInfo" \in DOMAIN props
                <=> (req.TicketNumber # << >> \/ req.TicketSystem # << >>)
            /\ "ticketInfo" \in DOMAIN props =>
                  /\ "ticketNumber" \in DOMAIN props.ticketInfo <=> req.TicketNumber # << >>
                  /\ "ticketSystem" \in DOMAIN props.ticketInfo <=> req.TicketSystem # << >>
                  /\ DOMAIN props.ticketInfo \subseteq {"ticketNumber", "ticketSystem"}
                  /\ \A k \in DOMAIN props.ticketInfo :
                        props.ticketInfo[k] =
                           (IF k = "ticketNumber" THEN req.TicketNumber ELSE req.TicketSystem)

\* only the ticket number was given
C11_Witness ==
    /\ ActReturned
    /\ req.TicketNumber = <<"T1">>
    /\ req.TicketSystem = << >>
    /\ \E b \in PutBodies : DOMAIN b.properties.ticketInfo = {"ticketNumber"}

DigitValue(c) ==
    CASE c = "0" -> 0 [] c = "1" -> 1 [] c = "2" -> 2 [] c = "3" -> 3 [] c = "4" -> 4
      [] c = "5" -> 5 [] c = "6" -> 6 [] c = "7" -> 7 [] c = "8" -> 8 [] c = "9" -> 9

RECURSIVE DecimalValue(_)
DecimalValue(d) ==
    IF d = << >> THEN 0
    ELSE 10 * DecimalValue(SubSeq(d, 1, Len(d) - 1)) + DigitValue(d[Len(d)])

\* d is the decimal numeral of m
IsDecimalOf(d, m) ==
    LET digits == IF m < 0 THEN Tail(d) ELSE d
        abs    == IF m < 0 THEN 0 - m ELSE m
    IN  /\ d # << >>
        /\ m < 0 => Head(d) = "-"
        /\ digits # << >>
        /\ \A i \in 1..Len(digits) :
              digits[i] \in {"0", "1", "2", "3", "4", "5", "6", "7", "8", "9"}
        /\ Len(digits) > 1 => digits[1] # "0"
        /\ DecimalValue(digits) = abs

\* C12: for a requested duration of m minutes the body's expiration has type
\* AfterDuration and duration PT<m>M with m in decimal, and requestType is
\* SelfActivate.
C12_DurationEncoding ==
    \A b \in PutBodies :
        LET e == b.properties.scheduleInfo.expiration
        IN  /\ e.type = "AfterDuration"
            /\ Len(e.duration) >= 4
            /\ SubSeq(e.duration, 1, 2) = <<"P", "T">>
            /\ e.duration[Len(e.duration)] = "M"
            /\ IsDecimalOf(SubSeq(e.duration, 3, Len(e.duration) - 1), req.Duration)
            /\ b.properties.requestType = "SelfActivate"

\* 90 minutes went out as PT90M
C12_Witness ==
    /\ ActReturned
    /\ req.Duration = 90
    /\ \E b \in PutBodies :
          b.properties.scheduleInfo.expiration.duration = <<"P", "T", "9", "0", "M">>

\* C30: every submitted body carries a duration of at least 1 minute and at
\* most the selected role's MaxDuration.
C30_DurationInRange ==
    \A b \in PutBodies :
        \E d \in 1..req.Role.MaxDuration :
            b.properties.scheduleInfo.expiration.duration
               = <<"P", "T">> \o FormatInt(d) \o <<"M">>

----------------------------------------------------------------------------
(* The mapping of one row of an eligibility page to an EligibleRole,      *)
(* with its display fields (fetchEligibleRoles, the body of the loop over  *)
(* response.Value).  A path is a sequence of tokens, "/" being one.        *)

VARIABLES
    rowItem,   \* fetchEligibleRoles: item (one element of response.Value)
    mapped     \* fetchEligibleRoles: the roles appended for the row

rowVars == <<rowItem, mapped>>

MaxScopeLen == 3   \* tokens of a row's scope path

RECURSIVE SeqsOfLen(_, _)
SeqsOfLen(S, n) ==
    IF n = 0 THEN {<< >>}
    ELSE {Append(q, x) : q \in SeqsOfLen(S, n - 1), x \in S}

\* the scope paths of a row
RowScopes ==
    UNION {SeqsOfLen({"/", "subscriptions", "resourceGroups", "managementGroups", "x"}, n) :
              n \in 0..MaxScopeLen}

\* expandedProperties is absent (a nil pointer)
NoExpandedProperties == [present |-> FALSE, roleName |-> << >>,
                         scopeName |-> << >>, scopeType |-> << >>]

\* what the API may put in expandedProperties.scope.type: any JSON string
ApiScopeTypes == {<<"subscription">>, <<"resourcegroup">>, <<"managementgroup">>,
                  <<"resourceGroup">>, << >>}

RowExpandedProperties ==
    {NoExpandedProperties}
    \cup {[present |-> TRUE, roleName |-> <<"Reader">>,
           scopeName |-> <<"x">>, scopeType |-> t] : t \in ApiScopeTypes}

RowItems ==
    {[id |-> <<"/", "a">>, roleDefinitionId |-> <<"/", "rd1">>, scope |-> sc,
      principalId |-> <<"u">>, expandedProperties |-> e] :
        sc \in RowScopes, e \in RowExpandedProperties}

\* strings.Contains(scope, "/" + name + "/")
ContainsSegment(scope, name) ==
    \E i \in 1..(Len(scope) - 2) :
        scope[i] = "/" /\ scope[i + 1] = name /\ scope[i + 2] = "/"

detectScopeType(scope) ==
    IF ContainsSegment(scope, "resourceGroups") THEN <<"resourceGroup">>
    ELSE IF ContainsSegment(scope, "managementGroups") THEN <<"managementGroup">>
    ELSE IF ContainsSegment(scope, "subscriptions") THEN <<"subscription">>
    ELSE <<"unknown">>

extractScopeName(scope) ==
    LET parts == SplitSlash(scope)
        hits  == {i \in 1..(Len(parts) - 1) :
                     parts[i] \in {<<"subscriptions">>, <<"resourceGroups">>,
                                   <<"managementGroups">>}}
    IN  IF hits = {} THEN scope
        ELSE parts[(CHOOSE i \in hits : \A j \in hits : i <= j) + 1]

\* the EligibleRole built for one row, display fields included
RowToRole(item) ==
    [ID               |-> item.id,
     EligibilityID    |-> item.id,
     RoleDefinitionID |-> item.roleDefinitionId,
     Scope            |-> item.scope,
     PrincipalID      |-> item.principalId,
     MaxDuration      |-> DefaultMaxDuration,
     RoleName         |-> IF item.expandedProperties.present
                          THEN item.expandedProperties.roleName
                          ELSE extractLastSegment(item.roleDefinitionId),
     ScopeName        |-> IF item.expandedProperties.present
                          THEN item.expandedProperties.scopeName
                          ELSE extractScopeName(item.scope),
     ScopeType        |-> IF item.expandedProperties.present
                          THEN item.expandedProperties.scopeType
                          ELSE detectScopeType(item.scope)]

RowInit ==
    /\ rowItem \in RowItems
    /\ mapped = << >>

\* no row is being mapped
RowIdle ==
    /\ rowItem = [id |-> << >>, roleDefinitionId |-> << >>, scope |-> << >>,
                  principalId |-> << >>, expandedProperties |-> NoExpandedProperties]
    /\ mapped = << >>

\* one iteration of the loop over response.Value
MapRow ==
    /\ mapped = << >>
    /\ mapped' = Append(mapped, RowToRole(rowItem))
    /\ UNCHANGED rowItem

ScopeTypes == {<<"subscription">>, <<"resourceGroup">>, <<"managementGroup">>, <<"unknown">>}

\* C23: every EligibleRole built from a row has a ScopeType among
\* subscription, resourceGroup, managementGroup and unknown, with expanded
\* properties and without.
C23_ScopeTypeDomain ==
    \A i \in 1..Len(mapped) : mapped[i].ScopeType \in ScopeTypes

----------------------------------------------------------------------------
(* The commands of main.go: checkPrerequisites, the operations run under  *)
(* the progress overlay (SpinWithResult), SelectRole and                  *)
(* PromptForJustification.                                                 *)
(*                                                                         *)
(* An operation is a thread that issues its runAzCommand calls one after  *)
(* another; each call is outstanding from its issue to its completion.    *)
(* Errors are strings: fmt.Errorf("...: %w", err) is concatenation, the   *)
(* nil error is << >>.  A bubbletea program delivers one message at a     *)
(* time to Update; tea.Quit is a command whose QuitMsg reaches the event  *)
(* loop like any other message, so messages already on their way can be   *)
(* handled by Update before Run returns.                                   *)

VARIABLES
    command,          \* the cobra command: "activate", "list", "status" ("spin": SpinWithResult alone)
    nonInteractive,   \* main.go: nonInteractive (--non-interactive)
    reason,           \* main.go: reason (--reason)
    azInstalled,      \* exec.LookPath("az") succeeds
    loggedIn,         \* the az CLI holds a login
    stdoutIsTerminal, \* isatty.IsTerminal(os.Stdout.Fd())
    resultKind,       \* SpinWithResult[T]: T is a "concrete" or an "interface" type
    fnOutcome,        \* SpinWithResult alone: the (val, err) that fn returns
    mainPc,           \* position inside runActivate / runList / runStatus
    runErr,           \* error returned by the command
    eligibleRoles,    \* runActivate: eligibleRoles
    selectedRole,     \* runActivate: selectedRole (0 = nil)
    justification,    \* runActivate: justification
    threads,          \* the operations started so far, in order
    overlay,          \* SpinWithResult: its position, spinnerModel m and the program's state
    spinRet,          \* the (val, err) SpinWithResult returned last
    selector,         \* SelectRole: the program's state and selectorModel
    textPrompt,       \* PromptForJustification: the program's state and textPromptModel
    keys,             \* key presses delivered so far
    azLog,            \* executor side: the az commands issued so far, in order
    exited            \* the process has ended

inputVars == <<command, nonInteractive, reason, azInstalled, loggedIn, stdoutIsTerminal,
               resultKind, fnOutcome>>
mainVars  == <<mainPc, runErr, eligibleRoles, selectedRole, justification, exited>>
uiVars    == <<overlay, spinRet, selector, textPrompt, keys>>
cmdVars   == <<inputVars, mainVars, uiVars, threads, azLog>>

MaxCmdSubs  == 1   \* subscriptions `az account list` returns to a command
MaxCmdRoles == 2   \* roles the API serves to a command
MaxCmdLinks == 1   \* continuation links the API hands out to a command
MaxKeys     == 2   \* key presses during a command

Nil == << >>

\* the kinds of az command the program issues
AccountShow        == "account show"
SignedInUserShow   == "ad signed-in-user show --output json"
AccountShowJson    == "account show --output json"
AccountList        == "account list --output json"
GetEligibility     == "rest GET roleEligibilityScheduleInstances"
GetActive          == "rest GET roleAssignmentScheduleInstances"
SignedInUserId     == "ad signed-in-user show --query id --output tsv"
GetSchedules       == "rest GET roleEligibilitySchedules"
PutRequest         == "rest PUT roleAssignmentScheduleRequests"
FnCall             == "fn"

\* the operations wrapped by the overlay
UserOp     == "GetCurrentUser"
RolesOp    == "GetEligibleRoleAssignments"
ActiveOp   == "GetActiveRoleAssignments"
ActivateOp == "ActivateRole"
FnOp       == "fn"

FirstCall(op) ==
    CASE op = UserOp     -> SignedInUserShow
      [] op = RolesOp    -> AccountList
      [] op = ActiveOp   -> GetActive
      [] op = ActivateOp -> SignedInUserId
      [] op = FnOp       -> FnCall

\* the zero value of the operation's result type
Zero(op) ==
    CASE op = UserOp     -> "nil"
      [] op = RolesOp    -> << >>
      [] op = ActiveOp   -> << >>
      [] op = ActivateOp -> "struct{}"
      [] op = FnOp       -> "zero"

RoleList(n) == [i \in 1..n |-> i]

\* no ActivationRequest is captured by the operation
NoActivationRequest == [Role |-> 0, Justification |-> EmptyString]

\* (mutation) the request is built for the first candidate
activationRequest_FirstCandidate(role, just) ==
    [Role |-> 1, Justification |-> just]

\* runActivate: activationRequest := azure.ActivationRequest{...}; a role is
\* its index in eligibleRoles
activationRequest(role, just) ==
    [Role |-> role, Justification |-> just]

\* the operation as it starts.  cause is history: the call, and the kind of
\* answer to it, that the operation returned its error on
NewThread(op) ==
    [op |-> op, at |-> FirstCall(op), waiting |-> FALSE,
     subs |-> 0, scope |-> 0, pending |-> 0, found |-> 0, links |-> 0,
     val |-> Zero(op), err |-> Nil,
     req |-> NoActivationRequest, cause |-> << >>]

Return(t, val, e) == [t EXCEPT !.at = "done", !.waiting = FALSE, !.val = val, !.err = e]

AzFailed == <<"az command failed">>

\* what the executor can answer to the call the thread has outstanding
AzResponses(t) ==
    {[kind |-> k, n |-> 0, more |-> FALSE] : k \in {"fail", "garbage"}}
    \cup
    CASE t.at = AccountList ->
           {[kind |-> "ok", n |-> n, more |-> FALSE] : n \in 0..MaxCmdSubs}
      [] t.at = GetEligibility ->
           {[kind |-> "ok", n |-> n, more |-> m] :
               n \in 0..(MaxCmdRoles - t.found - t.pending),
               m \in {FALSE} \cup {t.links < MaxCmdLinks}}
      [] t.at = GetActive ->
           {[kind |-> "ok", n |-> n, more |-> FALSE] : n \in 0..MaxCmdRoles}
      [] OTHER ->
           {[kind |-> "ok", n |-> 0, more |-> FALSE]}

\* GetEligibleRoleAssignments after the query of scope t.scope has returned
\* with `got` roles (its error, if any, is dropped)
NextScope(t, got) ==
    IF t.scope < t.subs
    THEN [t EXCEPT !.at = GetEligibility, !.waiting = FALSE, !.scope = t.scope + 1,
                   !.pending = 0, !.found = t.found + got]
    ELSE Return([t EXCEPT !.pending = 0, !.found = t.found + got],
                RoleList(t.found + got), Nil)

\* (mutation) an unparsable eligibility page fails the operation
Resume_PageParseFatal(t, r) ==
    CASE t.at = SignedInUserShow ->
           IF r.kind = "ok" THEN Return(t, "user", Nil)
           ELSE [t EXCEPT !.at = AccountShowJson, !.waiting = FALSE]
      [] t.at = AccountShowJson ->
           IF r.kind = "ok" THEN Return(t, "user", Nil)
           ELSE IF r.kind = "fail" THEN Return(t, "nil", AzFailed)
           ELSE Return(t, "nil", <<"invalid character">>)
      [] t.at = AccountList ->
           IF r.kind = "fail"
              THEN Return(t, << >>, <<"failed to get subscriptions: ">> \o AzFailed)
           ELSE IF r.kind = "garbage"
              THEN Return(t, << >>, <<"failed to get subscriptions: ", "failed to parse subscriptions: ">>)
           ELSE [t EXCEPT !.at = GetEligibility, !.waiting = FALSE, !.subs = r.n, !.scope = 0]
      [] t.at = GetEligibility ->
           IF r.kind = "garbage" THEN Return(t, << >>, <<"failed to parse response: ">>)
           ELSE IF r.kind # "ok" THEN NextScope(t, 0)
           ELSE IF r.more
              THEN [t EXCEPT !.waiting = FALSE, !.pending = t.pending + r.n,
                             !.links = t.links + 1]
           ELSE NextScope(t, t.pending + r.n)
      [] t.at = GetActive ->
           IF r.kind = "fail" THEN Return(t, << >>, AzFailed)
           ELSE IF r.kind = "garbage" THEN Return(t, << >>, <<"failed to parse response: ">>)
           ELSE Return(t, RoleList(r.n), Nil)
      [] t.at = SignedInUserId ->
           IF r.kind = "fail"
              THEN Return(t, "struct{}", <<"failed to get current user principal ID: ",
                                           "failed to get current user principal ID: ">> \o AzFailed)
           ELSE [t EXCEPT !.at = GetSchedules, !.waiting = FALSE]
      [] t.at = GetSchedules ->
           [t EXCEPT !.at = PutRequest, !.waiting = FALSE]
      [] t.at = PutRequest ->
           IF r.kind = "fail"
              THEN Return(t, "struct{}", <<"activation request failed: ">> \o AzFailed)
           ELSE Return(t, "struct{}", Nil)
      [] t.at = FnCall ->
           Return(t, fnOutcome.val, fnOutcome.err)

\* the thread's code from the completion of its outstanding call to its next
\* call or its return
Resume(t, r) ==
    CASE t.at = SignedInUserShow ->
           IF r.kind = "ok" THEN Return(t, "user", Nil)
           ELSE [t EXCEPT !.at = AccountShowJson, !.waiting = FALSE]
      [] t.at = AccountShowJson ->
           IF r.kind = "ok" THEN Return(t, "user", Nil)
           ELSE IF r.kind = "fail" THEN Return(t, "nil", AzFailed)
           ELSE Return(t, "nil", <<"invalid character">>)
      [] t.at = AccountList ->
           IF r.kind = "fail"
              THEN Return(t, << >>, <<"failed to get subscriptions: ">> \o AzFailed)
           ELSE IF r.kind = "garbage"
              THEN Return(t, << >>, <<"failed to get subscriptions: ", "failed to parse subscriptions: ">>)
           ELSE [t EXCEPT !.at = GetEligibility, !.waiting = FALSE, !.subs = r.n, !.scope = 0]
      [] t.at = GetEligibility ->
           IF r.kind # "ok" THEN NextScope(t, 0)
           ELSE IF r.more
              THEN [t EXCEPT !.waiting = FALSE, !.pending = t.pending + r.n,
                             !.links = t.links + 1]
           ELSE NextScope(t, t.pending + r.n)
      [] t.at = GetActive ->
           IF r.kind = "fail" THEN Return(t, << >>, AzFailed)
           ELSE IF r.kind = "garbage" THEN Return(t, << >>, <<"failed to parse response: ">>)
           ELSE Return(t, RoleList(r.n), Nil)
      [] t.at = SignedInUserId ->
           IF r.kind = "fail"
              THEN Return(t, "struct{}", <<"failed to get current user principal ID: ",
                                           "failed to get current user principal ID: ">> \o AzFailed)
           ELSE [t EXCEPT !.at = GetSchedules, !.waiting = FALSE]
      [] t.at = GetSchedules ->
           [t EXCEPT !.at = PutRequest, !.waiting = FALSE]
      [] t.at = PutRequest ->
           IF r.kind = "fail"
              THEN Return(t, "struct{}", <<"activation request failed: ">> \o AzFailed)
           ELSE Return(t, "struct{}", Nil)
      [] t.at = FnCall ->
           Return(t, fnOutcome.val, fnOutcome.err)

----------------------------------------------------------------------------
(* checkPrerequisites and the progress overlay *)

NotInstalled == <<"Azure CLI (az) is not installed">>
NotLoggedIn  == <<"You are not logged in to Azure CLI">>
Interrupted  == <<"interrupted">>
SpinnerFailed == <<"spinner program failed: ">>
UnexpectedResultType == <<"unexpected result type">>

SpinPoints == {"user", "roles", "active", "activate", "spin"}

\* the operation each SpinWithResult call of the commands wraps
\* (mutation) ActivateRole, and with it the resolution of the principal's
\* identifier, comes first and the user lookup last
OpAt_PrincipalFirst(pc) ==
    CASE pc = "user"     -> ActivateOp
      [] pc = "roles"    -> RolesOp
      [] pc = "active"   -> ActiveOp
      [] pc = "activate" -> UserOp
      [] pc = "spin"     -> FnOp

OpAt(pc) ==
    CASE pc = "user"     -> UserOp
      [] pc = "roles"    -> RolesOp
      [] pc = "active"   -> ActiveOp
      [] pc = "activate" -> ActivateOp
      [] pc = "spin"     -> FnOp

\* (mutation) every call is made with nonInteractive false
NonInteractiveAt_AlwaysInteractive(pc) == FALSE

\* the nonInteractive argument of the call: runList and runStatus pass false
NonInteractiveAt(pc) == IF command \in {"list", "status"} THEN FALSE ELSE nonInteractive

\* the message the command wraps a SpinWithResult error in
WrapAt(pc) ==
    CASE pc = "user"     -> <<"failed to get current user: ">>
      [] pc = "roles"    -> <<"failed to get eligible roles: ">>
      [] pc = "active"   -> <<"failed to get active roles: ">>
      [] pc = "activate" -> <<"failed to activate role: ">>
      [] pc = "spin"     -> << >>

NewModel == [result |-> "unset", err |-> Nil, done |-> FALSE]

OverlayIdle ==
    [state |-> "idle", thread |-> 0, m |-> NewModel, quit |-> FALSE,
     delivered |-> FALSE, events |-> << >>]

NoReturn == [val |-> "none", err |-> Nil]

\* (mutation) a missing login is not an error
checkPrerequisites_LoginNotChecked(installed, authenticated) ==
    IF ~installed THEN NotInstalled ELSE Nil

\* checkPrerequisites, given what IsAzCliInstalled and IsAuthenticated return
checkPrerequisites(installed, authenticated) ==
    IF ~installed THEN NotInstalled
    ELSE IF ~authenticated THEN NotLoggedIn
    ELSE Nil

\* the command's call of checkPrerequisites; IsAuthenticated runs
\* `az account show`, which fails without a login and can fail with one
CheckPrerequisites ==
    /\ mainPc = "prerequisites"
    /\ \E ok \in (IF loggedIn THEN BOOLEAN ELSE {FALSE}) :
          LET e == checkPrerequisites(azInstalled, ok)
          IN  /\ runErr' = e
              /\ mainPc' = IF e = Nil THEN "user" ELSE "done"
    /\ azLog' = IF azInstalled THEN Append(azLog, AccountShow) ELSE azLog
    /\ UNCHANGED <<inputVars, eligibleRoles, selectedRole, justification, exited,
                   uiVars, threads>>

\* SpinWithResult up to `return fn()` being entered or p.Run() being under way
SpinBegin ==
    /\ mainPc \in SpinPoints
    /\ overlay.state = "idle"
    /\ LET op == OpAt(mainPc)
           started(st) == /\ overlay' = [overlay EXCEPT !.state = st,
                                                        !.thread = Len(threads) + 1]
                          /\ threads' = Append(threads,
                                 [NewThread(op) EXCEPT
                                    !.req = IF op = ActivateOp
                                            THEN activationRequest(selectedRole, justification)
                                            ELSE @])
                          /\ spinRet' = spinRet
       IN  IF NonInteractiveAt(mainPc) \/ ~stdoutIsTerminal
           THEN started("sync")
           ELSE \/ started("running")
                \/ \* p.Run() fails before the program has run Init's commands
                   /\ overlay' = [overlay EXCEPT !.state = "returned",
                                                 !.events = Append(@, "program failed")]
                   /\ spinRet' = [val |-> Zero(op), err |-> SpinnerFailed]
                   /\ threads' = threads
    /\ UNCHANGED <<inputVars, mainVars, selector, textPrompt, keys, azLog>>

\* runAzCommand: the thread's next az command starts
ThreadIssue(i) ==
    /\ ~exited
    /\ threads[i].at # "done"
    /\ ~threads[i].waiting
    /\ threads' = [threads EXCEPT ![i].waiting = TRUE]
    /\ azLog' = Append(azLog, threads[i].at)
    /\ UNCHANGED <<inputVars, mainVars, uiVars>>

\* runAzCommand: cmd.Run() returns, and the thread runs on to its next call
ThreadComplete(i) ==
    /\ ~exited
    /\ threads[i].waiting
    /\ \E r \in AzResponses(threads[i]) :
          LET t  == threads[i]
              t2 == Resume(t, r)
          IN  threads' = [threads EXCEPT ![i] =
                  [t2 EXCEPT !.cause = IF t2.at = "done" /\ t2.err # Nil
                                       THEN <<t.at, r.kind>> ELSE @]]
    /\ UNCHANGED <<inputVars, mainVars, uiVars, azLog>>

\* SpinWithResult, no TUI: `return fn()`
SyncReturn ==
    /\ overlay.state = "sync"
    /\ threads[overlay.thread].at = "done"
    /\ spinRet' = [val |-> threads[overlay.thread].val, err |-> threads[overlay.thread].err]
    /\ overlay' = [overlay EXCEPT !.state = "returned"]
    /\ UNCHANGED <<inputVars, mainVars, selector, textPrompt, keys, threads, azLog>>

\* spinnerModel.Update, case resultMsg
UpdateResult ==
    /\ overlay.state = "running"
    /\ ~overlay.delivered
    /\ threads[overlay.thread].at = "done"
    /\ LET t == threads[overlay.thread]
       IN  overlay' = [overlay EXCEPT
                          !.m = [result |-> t.val, err |-> t.err, done |-> TRUE],
                          !.delivered = TRUE,
                          !.quit = TRUE,
                          !.events = Append(@, IF t.err = Nil THEN "completed" ELSE "failed")]
    /\ UNCHANGED <<inputVars, mainVars, spinRet, selector, textPrompt, keys, threads, azLog>>

\* spinnerModel.Update, case tea.KeyMsg with KeyCtrlC
UpdateCtrlC ==
    /\ overlay.state = "running"
    /\ keys < MaxKeys
    /\ keys' = keys + 1
    /\ overlay' = [overlay EXCEPT
                      !.m.err = Interrupted,
                      !.quit = TRUE,
                      !.events = Append(@, IF threads[overlay.thread].at = "done"
                                           THEN "interrupted late" ELSE "interrupted")]
    /\ UNCHANGED <<inputVars, mainVars, spinRet, selector, textPrompt, threads, azLog>>

\* (mutation) an interrupt is not reported as an error
SpinResult_InterruptSwallowed(op, m) ==
    IF m.err = Interrupted THEN [val |-> Zero(op), err |-> Nil]
    ELSE IF m.err # Nil THEN [val |-> Zero(op), err |-> m.err]
    ELSE [val |-> m.result, err |-> Nil]

\* (mutation) the model's error is not looked at
SpinResult_ErrorIgnored(op, m) == [val |-> m.result, err |-> Nil]

\* SpinWithResult from the return of p.Run() with a nil error
SpinResult(op, m) ==
    IF m.err # Nil THEN [val |-> Zero(op), err |-> m.err]
    ELSE IF resultKind = "interface" /\ m.result = Zero(op)
         THEN [val |-> Zero(op), err |-> UnexpectedResultType]
    ELSE [val |-> m.result, err |-> Nil]

\* the event loop receives QuitMsg: p.Run() returns the final model
SpinQuit ==
    /\ overlay.state = "running"
    /\ overlay.quit
    /\ spinRet' = SpinResult(threads[overlay.thread].op, overlay.m)
    /\ overlay' = [overlay EXCEPT !.state = "returned"]
    /\ UNCHANGED <<inputVars, mainVars, selector, textPrompt, keys, threads, azLog>>

\* p.Run() returns an error while the program is running
SpinRunFails ==
    /\ overlay.state = "running"
    /\ spinRet' = [val |-> Zero(threads[overlay.thread].op), err |-> SpinnerFailed]
    /\ overlay' = [overlay EXCEPT !.state = "returned",
                                  !.events = Append(@, "program failed")]
    /\ UNCHANGED <<inputVars, mainVars, selector, textPrompt, keys, threads, azLog>>

\* the command's code after a SpinWithResult call, up to the next call
AfterSpin ==
    /\ mainPc \in SpinPoints
    /\ overlay.state = "returned"
    /\ overlay' = OverlayIdle
    /\ IF spinRet.err # Nil
       THEN /\ runErr' = WrapAt(mainPc) \o spinRet.err
            /\ mainPc' = "done"
            /\ eligibleRoles' = eligibleRoles
       ELSE /\ runErr' = runErr
            /\ CASE mainPc = "user" ->
                      /\ mainPc' = IF command = "status" THEN "active" ELSE "roles"
                      /\ eligibleRoles' = eligibleRoles
                 [] mainPc = "roles" ->
                      /\ eligibleRoles' = spinRet.val
                      /\ mainPc' = IF Len(spinRet.val) = 0 \/ command = "list"
                                   THEN "done" ELSE "select"
                 [] OTHER ->
                      /\ mainPc' = "done"
                      /\ eligibleRoles' = eligibleRoles
    /\ UNCHANGED <<inputVars, selectedRole, justification, exited, spinRet, selector,
                   textPrompt, keys, threads, azLog>>

\* main returns or calls os.Exit(1): the process and its goroutines end
ProcessExit ==
    /\ mainPc = "done"
    /\ ~exited
    /\ exited' = TRUE
    /\ UNCHANGED <<inputVars, mainPc, runErr, eligibleRoles, selectedRole, justification,
                   uiVars, threads, azLog>>

----------------------------------------------------------------------------
(* SelectRole and PromptForJustification *)

Keys == {"enter", "ctrl+c", "esc", "other"}

NoRolesAvailable   == <<"no eligible roles available">>
MultipleRoles      == <<"multiple roles available but running in non-interactive mode">>
SelectorFailed     == <<"selector failed: ">>
SelectionCancelled == <<"selection cancelled">>
NoRoleSelected     == <<"no role selected">>
TextPromptFailed   == <<"text prompt failed: ">>
Cancelled          == <<"cancelled">>

IsIncreasing(s) == \A i \in 1..(Len(s) - 1) : s[i] < s[i + 1]

\* the states of the bubbles list over n items: what the filter shows, and
\* the cursor among the shown items (0 when nothing is shown)
ListStates(n) ==
    {l \in [filterState : {"unfiltered", "filtering", "filter applied"},
            shown : {s \in SeqsUpTo(1..n, n) : IsIncreasing(s)},
            cursor : 0..n] :
        /\ l.filterState = "unfiltered" => Len(l.shown) = n
        /\ IF l.shown = << >> THEN l.cursor = 0 ELSE l.cursor \in 1..Len(l.shown)}

\* list.New(items, ...)
NewList(n) ==
    [filterState |-> "unfiltered", shown |-> RoleList(n), cursor |-> IF n = 0 THEN 0 ELSE 1]

\* m.list.SelectedItem(): the index of the item under the cursor, 0 for none
SelectedItem(l) == IF l.shown = << >> THEN 0 ELSE l.shown[l.cursor]

NoSelection == [role |-> 0, err |-> Nil]

SelectorOff ==
    [state |-> "off", list |-> NewList(0), selected |-> 0, cancelled |-> FALSE,
     quit |-> FALSE, ret |-> NoSelection]

\* (mutation) a single candidate goes to the chooser like any other
SelectWithoutChooser_NoAutoSelect(candidates, ni) ==
    IF Len(candidates) = 0 THEN [chooser |-> FALSE, role |-> 0, err |-> NoRolesAvailable]
    ELSE IF ni THEN [chooser |-> FALSE, role |-> 0, err |-> MultipleRoles]
    ELSE [chooser |-> TRUE, role |-> 0, err |-> Nil]

\* (mutation) the mode is not looked at
SelectWithoutChooser_ModeIgnored(candidates, ni) ==
    IF Len(candidates) = 0 THEN [chooser |-> FALSE, role |-> 0, err |-> NoRolesAvailable]
    ELSE IF Len(candidates) = 1 THEN [chooser |-> FALSE, role |-> candidates[1], err |-> Nil]
    ELSE [chooser |-> TRUE, role |-> 0, err |-> Nil]

\* SelectRole before the chooser: what it returns, or that the chooser is needed
SelectWithoutChooser(candidates, ni) ==
    IF Len(candidates) = 0 THEN [chooser |-> FALSE, role |-> 0, err |-> NoRolesAvailable]
    ELSE IF Len(candidates) = 1 THEN [chooser |-> FALSE, role |-> candidates[1], err |-> Nil]
    ELSE IF ni THEN [chooser |-> FALSE, role |-> 0, err |-> MultipleRoles]
    ELSE [chooser |-> TRUE, role |-> 0, err |-> Nil]

\* SelectRole up to its return or to p.Run() being under way
SelectRole ==
    /\ mainPc = "select"
    /\ selector.state = "off"
    /\ LET returns(role, e) ==
               selector' = [selector EXCEPT !.state = "returned",
                                            !.ret = [role |-> role, err |-> e]]
           d == SelectWithoutChooser(eligibleRoles, nonInteractive)
       IN  IF ~d.chooser THEN returns(d.role, d.err)
           ELSE \/ selector' = [selector EXCEPT !.state = "running",
                                                !.list = NewList(Len(eligibleRoles))]
                \/ returns(0, SelectorFailed)
    /\ UNCHANGED <<inputVars, mainVars, overlay, spinRet, textPrompt, keys, threads, azLog>>

\* selectorModel.Update on a key message
SelectorKey(k) ==
    /\ selector.state = "running"
    /\ keys < MaxKeys
    /\ keys' = keys + 1
    /\ LET l == selector.list
           listUpdate == \E nl \in ListStates(Len(eligibleRoles)) :
                             selector' = [selector EXCEPT !.list = nl]
       IN  CASE k = "enter" /\ l.filterState # "filtering" ->
                  selector' = [selector EXCEPT
                                  !.selected = IF SelectedItem(l) # 0
                                               THEN eligibleRoles[SelectedItem(l)] ELSE @,
                                  !.quit = TRUE]
             [] k = "ctrl+c" ->
                  selector' = [selector EXCEPT !.cancelled = TRUE, !.quit = TRUE]
             [] k = "esc" /\ l.filterState # "filtering" ->
                  selector' = [selector EXCEPT !.cancelled = TRUE, !.quit = TRUE]
             [] OTHER -> listUpdate
    /\ UNCHANGED <<inputVars, mainVars, overlay, spinRet, textPrompt, threads, azLog>>

\* (mutation) a selection made before the cancellation is returned
SelectResult_SelectedWins(m) ==
    IF m.selected # 0 THEN [role |-> m.selected, err |-> Nil]
    ELSE IF m.cancelled THEN [role |-> 0, err |-> SelectionCancelled]
    ELSE [role |-> 0, err |-> NoRoleSelected]

\* SelectRole from the return of p.Run() with a nil error
SelectResult(m) ==
    IF m.cancelled THEN [role |-> 0, err |-> SelectionCancelled]
    ELSE IF m.selected = 0 THEN [role |-> 0, err |-> NoRoleSelected]
    ELSE [role |-> m.selected, err |-> Nil]

\* the event loop receives QuitMsg: p.Run() returns the final model
SelectorQuit ==
    /\ selector.state = "running"
    /\ selector.quit
    /\ selector' = [selector EXCEPT !.state = "returned", !.ret = SelectResult(selector)]
    /\ UNCHANGED <<inputVars, mainVars, overlay, spinRet, textPrompt, keys, threads, azLog>>

\* p.Run() returns an error while the program is running
SelectorRunFails ==
    /\ selector.state = "running"
    /\ selector' = [selector EXCEPT !.state = "returned",
                                    !.ret = [role |-> 0, err |-> SelectorFailed]]
    /\ UNCHANGED <<inputVars, mainVars, overlay, spinRet, textPrompt, keys, threads, azLog>>

\* runActivate after SelectRole
AfterSelect ==
    /\ mainPc = "select"
    /\ selector.state = "returned"
    /\ IF selector.ret.err # Nil
       THEN /\ runErr' = <<"role selection failed: ">> \o selector.ret.err
            /\ mainPc' = "done"
            /\ selectedRole' = selectedRole
       ELSE /\ selectedRole' = selector.ret.role
            /\ mainPc' = "justify"
            /\ runErr' = runErr
    /\ UNCHANGED <<inputVars, eligibleRoles, justification, exited, uiVars, threads, azLog>>

PromptOff ==
    [state |-> "off", value |-> EmptyString, done |-> FALSE, cancelled |-> FALSE,
     quit |-> FALSE, ret |-> [val |-> EmptyString, err |-> Nil]]

\* what the user can have typed
TypedValues == {EmptyString, <<"why">>}

\* runActivate: the justification is the flag's, or is asked for
Justify ==
    /\ mainPc = "justify"
    /\ textPrompt.state = "off"
    /\ IF reason = EmptyString /\ ~nonInteractive
       THEN /\ \/ textPrompt' = [textPrompt EXCEPT !.state = "running"]
               \/ textPrompt' = [textPrompt EXCEPT
                                   !.state = "returned",
                                   !.ret = [val |-> EmptyString, err |-> TextPromptFailed]]
            /\ UNCHANGED <<mainPc, justification>>
       ELSE /\ justification' = reason
            /\ mainPc' = "activate"
            /\ textPrompt' = textPrompt
    /\ UNCHANGED <<inputVars, runErr, eligibleRoles, selectedRole, exited, overlay, spinRet,
                   selector, keys, threads, azLog>>

\* textPromptModel.Update on a key message
PromptKey(k) ==
    /\ textPrompt.state = "running"
    /\ keys < MaxKeys
    /\ keys' = keys + 1
    /\ CASE k = "enter" ->
              textPrompt' = [textPrompt EXCEPT !.done = TRUE, !.quit = TRUE]
         [] k \in {"ctrl+c", "esc"} ->
              textPrompt' = [textPrompt EXCEPT !.cancelled = TRUE, !.quit = TRUE]
         [] OTHER ->
              \E v \in TypedValues : textPrompt' = [textPrompt EXCEPT !.value = v]
    /\ UNCHANGED <<inputVars, mainVars, overlay, spinRet, selector, threads, azLog>>

\* the event loop receives QuitMsg: PromptForJustification returns
PromptQuit ==
    /\ textPrompt.state = "running"
    /\ textPrompt.quit
    /\ textPrompt' = [textPrompt EXCEPT
                         !.state = "returned",
                         !.ret = IF textPrompt.cancelled
                                 THEN [val |-> EmptyString, err |-> Cancelled]
                                 ELSE [val |-> textPrompt.value, err |-> Nil]]
    /\ UNCHANGED <<inputVars, mainVars, overlay, spinRet, selector, keys, threads, azLog>>

\* p.Run() returns an error while the program is running
PromptRunFails ==
    /\ textPrompt.state = "running"
    /\ textPrompt' = [textPrompt EXCEPT
                         !.state = "returned",
                         !.ret = [val |-> EmptyString, err |-> TextPromptFailed]]
    /\ UNCHANGED <<inputVars, mainVars, overlay, spinRet, selector, keys, threads, azLog>>

\* runActivate after PromptForJustification
AfterPrompt ==
    /\ mainPc = "justify"
    /\ textPrompt.state = "returned"
    /\ IF textPrompt.ret.err # Nil
       THEN /\ runErr' = <<"failed to get justification: ">> \o textPrompt.ret.err
            /\ mainPc' = "done"
            /\ justification' = justification
       ELSE /\ justification' = textPrompt.ret.val
            /\ mainPc' = "activate"
            /\ runErr' = runErr
    /\ UNCHANGED <<inputVars, eligibleRoles, selectedRole, exited, uiVars, threads, azLog>>

----------------------------------------------------------------------------
(* Initial states of the commands *)

CmdLocalsInit ==
    /\ runErr = Nil
    /\ eligibleRoles = << >>
    /\ selectedRole = 0
    /\ justification = EmptyString
    /\ threads = << >>
    /\ overlay = OverlayIdle
    /\ spinRet = NoReturn
    /\ selector = SelectorOff
    /\ textPrompt = PromptOff
    /\ keys = 0
    /\ azLog = << >>
    /\ exited = FALSE

NoFn == [val |-> "zero", err |-> Nil]

\* `hacktivator`, `hacktivator list` or `hacktivator status` is started
CmdInit ==
    /\ command \in {"activate", "list", "status"}
    /\ nonInteractive \in BOOLEAN
    /\ reason \in TypedValues
    /\ azInstalled \in BOOLEAN
    /\ loggedIn \in BOOLEAN
    /\ stdoutIsTerminal \in BOOLEAN
    /\ resultKind = "concrete"
    /\ fnOutcome = NoFn
    /\ mainPc = "prerequisites"
    /\ CmdLocalsInit

FnOutcomes == [val : {"zero", "v"}, err : {Nil, <<"fn failed">>}]

\* SpinWithResult is called with some fn
SpinInit ==
    /\ command = "spin"
    /\ nonInteractive \in BOOLEAN
    /\ reason = EmptyString
    /\ azInstalled = TRUE
    /\ loggedIn = TRUE
    /\ stdoutIsTerminal \in BOOLEAN
    /\ resultKind \in {"concrete", "interface"}
    /\ fnOutcome \in FnOutcomes
    /\ mainPc = "spin"
    /\ CmdLocalsInit

\* no command is running
CmdIdle ==
    /\ command = "none"
    /\ nonInteractive = FALSE
    /\ reason = EmptyString
    /\ azInstalled = TRUE
    /\ loggedIn = TRUE
    /\ stdoutIsTerminal = TRUE
    /\ resultKind = "concrete"
    /\ fnOutcome = NoFn
    /\ mainPc = "done"
    /\ CmdLocalsInit

----------------------------------------------------------------------------
(* Specifications *)

vars == <<aggVars, envVars, actVars, cmdVars, rowVars>>

AggIdle == AggInit /\ EnvInit

\* a run of GetEligibleRoleAssignments against an arbitrary executor
InitAggregate == AggInit /\ EnvInit /\ ActIdle /\ CmdIdle /\ RowIdle

NextAggregate ==
    \/ GetSubscriptions /\ UNCHANGED <<actVars, cmdVars, rowVars>>
    \/ QueryScope /\ UNCHANGED <<actVars, cmdVars, rowVars>>
    \/ FetchPage /\ UNCHANGED <<actVars, cmdVars, rowVars>>
    \/ ReturnUnique /\ UNCHANGED <<actVars, cmdVars, rowVars>>

SpecAggregate == InitAggregate /\ [][NextAggregate]_vars

\* a call of ActivateRole against an arbitrary executor
InitActivate == AggIdle /\ ActInit /\ CmdIdle /\ RowIdle

NextActivate ==
    \/ ResolvePrincipal /\ UNCHANGED <<aggVars, envVars, cmdVars, rowVars>>
    \/ LookupSchedule /\ UNCHANGED <<aggVars, envVars, cmdVars, rowVars>>
    \/ SubmitActivation /\ UNCHANGED <<aggVars, envVars, cmdVars, rowVars>>

SpecActivate == InitActivate /\ [][NextActivate]_vars

\* a call of ActivateRole with the request's flag-borne fields varied
InitActivateFlags == AggIdle /\ ActInitFlags /\ CmdIdle /\ RowIdle

SpecActivateFlags == InitActivateFlags /\ [][NextActivate]_vars

\* a call of fetchEligibleRoles against an API free to repeat its links
InitFetch == FetchInit /\ ActIdle /\ CmdIdle /\ RowIdle

NextFetch == FetchAnyPage /\ UNCHANGED <<actVars, cmdVars, rowVars>>

SpecFetch == InitFetch /\ [][NextFetch]_vars

\* the mapping of one row of an eligibility page
InitMapRow == AggIdle /\ ActIdle /\ CmdIdle /\ RowInit

NextMapRow == MapRow /\ UNCHANGED <<aggVars, envVars, actVars, cmdVars>>

SpecMapRow == InitMapRow /\ [][NextMapRow]_vars

\* a run of one of the commands
InitCommand == AggIdle /\ ActIdle /\ CmdInit /\ RowIdle

NextCommand ==
    \/ CheckPrerequisites /\ UNCHANGED <<aggVars, envVars, actVars, rowVars>>
    \/ SpinBegin /\ UNCHANGED <<aggVars, envVars, actVars, rowVars>>
    \/ (\E i \in 1..Len(threads) : ThreadIssue(i)) /\ UNCHANGED <<aggVars, envVars, actVars, rowVars>>
    \/ (\E i \in 1..Len(threads) : ThreadComplete(i)) /\ UNCHANGED <<aggVars, envVars, actVars, rowVars>>
    \/ SyncReturn /\ UNCHANGED <<aggVars, envVars, actVars, rowVars>>
    \/ UpdateResult /\ UNCHANGED <<aggVars, envVars, actVars, rowVars>>
    \/ UpdateCtrlC /\ UNCHANGED <<aggVars, envVars, actVars, rowVars>>
    \/ SpinQuit /\ UNCHANGED <<aggVars, envVars, actVars, rowVars>>
    \/ SpinRunFails /\ UNCHANGED <<aggVars, envVars, actVars, rowVars>>
    \/ AfterSpin /\ UNCHANGED <<aggVars, envVars, actVars, rowVars>>
    \/ SelectRole /\ UNCHANGED <<aggVars, envVars, actVars, rowVars>>
    \/ (\E k \in Keys : SelectorKey(k)) /\ UNCHANGED <<aggVars, envVars, actVars, rowVars>>
    \/ SelectorQuit /\ UNCHANGED <<aggVars, envVars, actVars, rowVars>>
    \/ SelectorRunFails /\ UNCHANGED <<aggVars, envVars, actVars, rowVars>>
    \/ AfterSelect /\ UNCHANGED <<aggVars, envVars, actVars, rowVars>>
    \/ Justify /\ UNCHANGED <<aggVars, envVars, actVars, rowVars>>
    \/ (\E k \in Keys : PromptKey(k)) /\ UNCHANGED <<aggVars, envVars, actVars, rowVars>>
    \/ PromptQuit /\ UNCHANGED <<aggVars, envVars, actVars, rowVars>>
    \/ PromptRunFails /\ UNCHANGED <<aggVars, envVars, actVars, rowVars>>
    \/ AfterPrompt /\ UNCHANGED <<aggVars, envVars, actVars, rowVars>>
    \/ ProcessExit /\ UNCHANGED <<aggVars, envVars, actVars, rowVars>>

SpecCommand == InitCommand /\ [][NextCommand]_vars

\* a call of SpinWithResult with an arbitrary fn
InitSpin == AggIdle /\ ActIdle /\ SpinInit /\ RowIdle

NextSpin ==
    \/ SpinBegin /\ UNCHANGED <<aggVars, envVars, actVars, rowVars>>
    \/ (\E i \in 1..Len(threads) : ThreadIssue(i)) /\ UNCHANGED <<aggVars, envVars, actVars, rowVars>>
    \/ (\E i \in 1..Len(threads) : ThreadComplete(i)) /\ UNCHANGED <<aggVars, envVars, actVars, rowVars>>
    \/ SyncReturn /\ UNCHANGED <<aggVars, envVars, actVars, rowVars>>
    \/ UpdateResult /\ UNCHANGED <<aggVars, envVars, actVars, rowVars>>
    \/ UpdateCtrlC /\ UNCHANGED <<aggVars, envVars, actVars, rowVars>>
    \/ SpinQuit /\ UNCHANGED <<aggVars, envVars, actVars, rowVars>>
    \/ SpinRunFails /\ UNCHANGED <<aggVars, envVars, actVars, rowVars>>

SpecSpin == InitSpin /\ [][NextSpin]_vars

----------------------------------------------------------------------------
(* Claims about the overlay *)

\* SpinWithResult has returned from a program that ran without error
OverlayReturned ==
    /\ overlay.state = "returned"
    /\ overlay.thread # 0
    /\ \A i \in 1..Len(overlay.events) : overlay.events[i] # "program failed"

TerminalEvents == {overlay.events[i] : i \in 1..Len(overlay.events)}

\* C13: a Ctrl-C handled while the wrapped operation is still running makes
\* SpinWithResult return the "interrupted" error.
C13_InterruptReported ==
    (OverlayReturned /\ "interrupted" \in TerminalEvents) => spinRet.err = Interrupted

\* C14: the outcome SpinWithResult reports is the one of the terminal state
\* the overlay reached first: it does not change afterwards.
C14_OneTerminalState ==
    OverlayReturned /\ stdoutIsTerminal /\ ~NonInteractiveAt(mainPc) =>
        LET t == threads[overlay.thread]
        IN  /\ overlay.events # << >>
            /\ overlay.events[1] = "completed" => spinRet = [val |-> t.val, err |-> Nil]
            /\ overlay.events[1] = "failed" => spinRet.err = t.err
            /\ overlay.events[1] \in {"interrupted", "interrupted late"}
                  => spinRet.err = Interrupted

\* the backend SpinWithResult takes
Interactive == ~nonInteractive /\ stdoutIsTerminal

\* C15 as stated: with no user interrupt SpinWithResult returns the pair fn
\* returned, which is what the non-interactive backend returns, in both
\* backends (stated for the calls whose spinner program ran without error).
C15_SamePair ==
    (OverlayReturned /\ keys = 0) => spinRet = fnOutcome

\* C15 (amended): with no user interrupt and the spinner program running
\* without error, the non-interactive backend returns fn's pair; the
\* interactive backend returns fn's error with the zero value when the error
\* is not nil, "unexpected result type" with the zero value when fn returned
\* a nil value of an interface type, and fn's pair otherwise.
C15_SameErrorAndSuccessValue ==
    (OverlayReturned /\ keys = 0) =>
        IF ~Interactive THEN spinRet = fnOutcome
        ELSE IF fnOutcome.err # Nil
             THEN spinRet = [val |-> "zero", err |-> fnOutcome.err]
        ELSE IF resultKind = "interface" /\ fnOutcome.val = "zero"
             THEN spinRet = [val |-> "zero", err |-> UnexpectedResultType]
        ELSE spinRet = fnOutcome

\* fn returned a value together with an error; the interactive backend
\* dropped the value
C15_Witness ==
    /\ OverlayReturned
    /\ keys = 0
    /\ Interactive
    /\ fnOutcome = [val |-> "v", err |-> <<"fn failed">>]
    /\ spinRet = [val |-> "zero", err |-> <<"fn failed">>]

----------------------------------------------------------------------------
(* Claims about the commands *)

Executing == {i \in 1..Len(threads) : threads[i].at # "done"}

Outstanding == {i \in 1..Len(threads) : threads[i].waiting}

Issued(c) == \E i \in 1..Len(azLog) : azLog[i] = c

\* C16: at most one overlay-wrapped operation is executing and at most one
\* az request is outstanding, at every point of a command, also after an
\* interrupt.
C16_SingleInFlight ==
    /\ Cardinality(Executing) <= 1
    /\ Cardinality(Outstanding) <= 1

\* the command has returned "interrupted" and the operation it left behind
\* has a request outstanding
C16_Witness ==
    /\ mainPc = "done"
    /\ runErr = <<"failed to get eligible roles: ">> \o Interrupted
    /\ Outstanding = {2}
    /\ threads[2].at = GetEligibility
    /\ threads[2].scope = 1

\* C17: with exactly one candidate SelectRole returns it with no error and
\* without starting the chooser, in either mode.
C17_AutoSelect ==
    (Len(eligibleRoles) = 1 /\ command = "activate") =>
        /\ selector.state # "running"
        /\ selector.state = "returned" => selector.ret = [role |-> eligibleRoles[1], err |-> Nil]
        /\ mainPc \in {"justify", "activate"} => selectedRole = eligibleRoles[1]

C17_Witness ==
    /\ Len(eligibleRoles) = 1
    /\ selector.state = "returned"
    /\ selector.ret = [role |-> 1, err |-> Nil]
    /\ ~nonInteractive
    /\ keys = 0

\* C18: with two or more candidates in non-interactive mode SelectRole
\* returns an error without starting the chooser or waiting for input, and
\* the activate command fails with no activation PUT issued.
C18_NonInteractiveRejection ==
    (Len(eligibleRoles) >= 2 /\ nonInteractive /\ command = "activate") =>
        /\ selector.state # "running"
        /\ selector.state = "returned" => selector.ret = [role |-> 0, err |-> MultipleRoles]
        /\ textPrompt.state = "off"
        /\ keys = 0
        /\ ~Issued(PutRequest)
        /\ \A i \in 1..Len(threads) : threads[i].op # ActivateOp
        /\ mainPc \in {"select", "done"}
        /\ mainPc = "done" => runErr = <<"role selection failed: ">> \o MultipleRoles

C18_Witness ==
    /\ command = "activate"
    /\ nonInteractive
    /\ Len(eligibleRoles) = 2
    /\ exited
    /\ runErr = <<"role selection failed: ">> \o MultipleRoles

\* C19: when az is missing or the caller is not logged in, each command
\* returns an error before any az command other than the login check, any
\* operation, any selection or any prompt.
C19_PreconditionsFirst ==
    ((~azInstalled \/ ~loggedIn) /\ mainPc # "prerequisites") =>
        /\ mainPc = "done"
        /\ runErr = IF ~azInstalled THEN NotInstalled ELSE NotLoggedIn
        /\ azLog = IF ~azInstalled THEN << >> ELSE <<AccountShow>>
        /\ threads = << >>
        /\ overlay = OverlayIdle
        /\ selector = SelectorOff
        /\ textPrompt = PromptOff
        /\ keys = 0

C19_Witness ==
    /\ command = "status"
    /\ azInstalled
    /\ ~loggedIn
    /\ exited
    /\ runErr = NotLoggedIn

\* the place of an az command in an activation run
StepRank(c) ==
    CASE c = AccountShow      -> 0
      [] c = SignedInUserShow -> 1
      [] c = AccountShowJson  -> 2
      [] c = AccountList      -> 3
      [] c = GetEligibility   -> 4
      [] c = SignedInUserId   -> 5
      [] c = GetSchedules     -> 6
      [] c = PutRequest       -> 7

\* C21 (as stated): in an activation run the activating principal's
\* identifier is resolved before the eligibility aggregation starts.
C21_PrincipalIdBeforeAggregation ==
    command = "activate" =>
        \A j \in 1..Len(azLog) :
            azLog[j] = AccountList => \E i \in 1..(j - 1) : azLog[i] = SignedInUserId

\* C21 (amended): in an activation run the user is looked up first, then the
\* aggregation runs, then the selection, then inside ActivateRole the
\* activating principal's identifier is resolved, then the schedule is
\* looked up, then the request is submitted; a step starts only when the one
\* before it has finished without error, and every operation that is still
\* running is the one the overlay was called with, unless the overlay gave up
\* on it and the command failed.
C21_ControlFlowOrder ==
    command = "activate" =>
        /\ \A i \in 1..(Len(azLog) - 1) : StepRank(azLog[i]) <= StepRank(azLog[i + 1])
        /\ Len(threads) <= 3
        /\ \A i \in 1..Len(threads) :
              /\ threads[i].op = <<UserOp, RolesOp, ActivateOp>>[i]
              /\ i < Len(threads) => (threads[i].at = "done" /\ threads[i].err = Nil)
              /\ threads[i].at # "done" =>
                    \/ overlay.thread = i /\ overlay.state \in {"sync", "running", "returned"}
                    \/ mainPc = "done" /\ runErr # Nil
        /\ selector.state # "off" =>
              (Len(threads) >= 2 /\ threads[2].at = "done" /\ threads[2].err = Nil)
        /\ selector.state = "running" => Len(threads) = 2
        /\ Len(threads) = 3 => (selector.state = "returned" /\ selector.ret.err = Nil)

\* an activation run has submitted its request
C21_Witness ==
    /\ command = "activate"
    /\ Len(threads) = 3
    /\ threads[3].at = "done"
    /\ Issued(PutRequest)
    /\ Issued(GetSchedules)

\* the calls whose unparsable output makes the operation return an error
ParseFatalCalls == {AccountList, GetActive, AccountShowJson}

\* C22 (as stated): an operation returns an error on unparsable output only
\* when the output is that of the subscription enumeration or of the
\* active-assignments query.
C22_OnlyTopLevelParseFatal ==
    \A i \in 1..Len(threads) :
        (threads[i].cause # << >> /\ threads[i].cause[2] = "garbage")
            => threads[i].cause[1] \in {AccountList, GetActive}

\* an operation that returned an error on unparsable output returned it on
\* the output of one of the three calls, and the command then fails
ParseFailuresFatal ==
    \A i \in 1..Len(threads) :
        (threads[i].cause # << >> /\ threads[i].cause[2] = "garbage") =>
            /\ threads[i].cause[1] \in ParseFatalCalls
            /\ mainPc = "done" => runErr # Nil

\* whatever the answer to an eligibility page query or to the schedule
\* lookup, the operation does not return an error on it
PageAndScheduleAbsorbed ==
    \A i \in 1..Len(threads) :
        (/\ threads[i].waiting
         /\ threads[i].at \in {GetEligibility, GetSchedules}
         /\ threads'[i] # threads[i]) => threads'[i].err = Nil

\* C22 (amended): an operation returns an error on unparsable output only
\* when the output is that of the subscription enumeration, of the
\* active-assignments query or of the `az account show` fallback of the user
\* lookup, and the command then fails; no answer to an eligibility page
\* query or to the schedule lookup, an unparsable one included, makes the
\* operation return an error.
C22_ParseFailurePropagation == []ParseFailuresFatal /\ [][PageAndScheduleAbsorbed]_vars

\* the user lookup fell back to `az account show`, its output could not be
\* parsed, and the command failed
C22_Witness ==
    /\ command = "activate"
    /\ Len(threads) = 1
    /\ threads[1].cause = <<AccountShowJson, "garbage">>
    /\ exited
    /\ runErr = <<"failed to get current user: ", "invalid character">>

\* the operations that call ActivateRole, and the operations a request was
\* built for
ActivateThreads == {i \in 1..Len(threads) : threads[i].op = ActivateOp}
RequestsBuilt   == {i \in 1..Len(threads) : threads[i].req # NoActivationRequest}

TimesIssued(c) == Cardinality({i \in 1..Len(azLog) : azLog[i] = c})

\* the justification is asked for
PromptAsked == reason = EmptyString /\ ~nonInteractive

\* C24: at most one ActivationRequest is built and ActivateRole is called at
\* most once, and only after the prerequisites, the user lookup, an
\* aggregation with at least one role, the selection and (when asked) the
\* justification prompt succeeded; otherwise no schedule lookup and no PUT
\* is issued.  The request's Role is the selected candidate.
C24_ActivateOnceAfterAllSucceeded ==
    /\ Cardinality(ActivateThreads) <= 1
    /\ RequestsBuilt \subseteq ActivateThreads
    /\ TimesIssued(GetSchedules) <= 1
    /\ TimesIssued(PutRequest) <= 1
    /\ (Issued(SignedInUserId) \/ Issued(GetSchedules) \/ Issued(PutRequest))
          => ActivateThreads # {}
    /\ \A i \in ActivateThreads :
          /\ command = "activate"
          /\ azInstalled /\ loggedIn /\ Issued(AccountShow)
          /\ i = 3
          /\ threads[1].op = UserOp /\ threads[1].at = "done" /\ threads[1].err = Nil
          /\ threads[2].op = RolesOp /\ threads[2].at = "done" /\ threads[2].err = Nil
          /\ Len(threads[2].val) >= 1
          /\ eligibleRoles = threads[2].val
          /\ selector.state = "returned" /\ selector.ret.err = Nil
          /\ selectedRole = selector.ret.role
          /\ \E k \in 1..Len(eligibleRoles) : eligibleRoles[k] = selectedRole
          /\ IF PromptAsked
             THEN /\ textPrompt.state = "returned" /\ textPrompt.ret.err = Nil
                  /\ justification = textPrompt.ret.val
             ELSE /\ textPrompt.state = "off"
                  /\ justification = reason
          /\ threads[i].req = [Role |-> selectedRole, Justification |-> justification]

\* the justification was asked for and typed, and the request built with it
\* was submitted
C24_Witness ==
    /\ ActivateThreads = {3}
    /\ Issued(PutRequest)
    /\ PromptAsked
    /\ threads[3].req.Justification = <<"why">>
    /\ threads[3].req.Role = 1

\* a step of the command that no key press is needed for
StepWithoutInput ==
    \/ CheckPrerequisites
    \/ SpinBegin
    \/ \E i \in 1..Len(threads) : ThreadIssue(i)
    \/ \E i \in 1..Len(threads) : ThreadComplete(i)
    \/ SyncReturn
    \/ AfterSpin
    \/ SelectRole
    \/ AfterSelect
    \/ Justify
    \/ ProcessExit

\* C25: with --non-interactive the activate command never runs the spinner
\* program, the chooser or the prompt and no key is ever read; the request
\* carries the --reason flag as it is, the empty one included; and until the
\* process has ended a step that needs no input is always possible, the
\* process ending with the run's result.
C25_NonInteractiveNeverWaits ==
    (command = "activate" /\ nonInteractive) =>
        /\ overlay.state # "running"
        /\ overlay.events = << >>
        /\ selector.state # "running"
        /\ textPrompt.state = "off"
        /\ keys = 0
        /\ \A i \in ActivateThreads : threads[i].req.Justification = reason
        /\ ~exited => ENABLED StepWithoutInput
        /\ exited => mainPc = "done"

\* a non-interactive activation without --reason has submitted its request
\* and ended
C25_Witness ==
    /\ command = "activate"
    /\ nonInteractive
    /\ stdoutIsTerminal
    /\ reason = EmptyString
    /\ exited
    /\ runErr = Nil
    /\ Issued(PutRequest)
    /\ threads[3].req.Justification = EmptyString

\* C26: the result/error pair the overlay records is written once: after
\* the first terminal event (a result message or a Ctrl-C, each of which
\* asks the program to quit) no later message changes it before the program
\* quits.
C26_PairWrittenOnce ==
    [][(overlay.state = "running" /\ overlay.quit /\ overlay'.state = "running")
          => overlay'.m = overlay.m]_vars

\* the candidates SelectRole was given
Candidates == {eligibleRoles[i] : i \in 1..Len(eligibleRoles)}

\* SelectRole has returned a role and no error, or an error and no role; a
\* role it returns is a candidate, and is the one confirmed in the chooser
\* when the chooser ran; a cancelled chooser, and one that quit with nothing
\* confirmed, gives an error
SelectOutcome ==
    selector.state = "returned" =>
        /\ \/ selector.ret.role = 0 /\ selector.ret.err # Nil
           \/ selector.ret.role \in Candidates /\ selector.ret.err = Nil
        /\ selector.cancelled => selector.ret.err # Nil
        /\ (selector.quit /\ selector.selected = 0) => selector.ret.err # Nil
        /\ (selector.quit /\ selector.ret.err = Nil) => selector.ret.role = selector.selected

\* what the chooser does with a key
ChooserKeys ==
    /\ SelectorKey("ctrl+c") => (selector'.cancelled /\ selector'.quit)
    /\ SelectorKey("esc") =>
          IF selector.list.filterState # "filtering"
          THEN selector'.cancelled /\ selector'.quit
          ELSE selector'.cancelled = selector.cancelled /\ selector'.quit = selector.quit
    /\ SelectorKey("enter") =>
          IF selector.list.filterState # "filtering"
          THEN /\ selector'.quit
               /\ selector'.cancelled = selector.cancelled
               /\ selector'.selected =
                     IF SelectedItem(selector.list) # 0
                     THEN eligibleRoles[SelectedItem(selector.list)]
                     ELSE selector.selected
          ELSE /\ selector'.selected = selector.selected
               /\ selector'.quit = selector.quit
               /\ selector'.cancelled = selector.cancelled

\* C29: SelectRole returns a candidate and no error, or an error and no
\* role; in the chooser Ctrl-C always cancels, Esc cancels and Enter
\* confirms only when the list is not in filter-typing state; a cancelled
\* chooser and a confirmation with no item highlighted give an error.
C29_RoleOrError == []SelectOutcome /\ [][ChooserKeys]_vars

\* the chooser ran and the second candidate was confirmed and returned
C29_Witness ==
    /\ selector.state = "returned"
    /\ selector.quit
    /\ selector.ret = [role |-> 2, err |-> Nil]

====
